---- MODULE Spec2Model ----
(***************************************************************************)
(* Chart-analysis request pipeline of the yoforex backend.                 *)
(*   routers/swing.py, routers/scalp.py : analyze_chart                    *)
(*   app.py                             : analyze_chart_endpoint           *)
(*   utils/image_check.py               : is_trading_chart (Chart Gate)    *)
(*   utils/gemini_helper.py, app.py     : analyze_image_with_gemini        *)
(*   models.py                          : SwingAnalysisHistory             *)
(* Every request is a process that walks through its handler; the upload   *)
(* directory and the history table are shared between the requests.        *)
(***************************************************************************)
EXTENDS Integers, Sequences, FiniteSets, TLC

\* ------------------------------------------------------------------ bounds
\* Number of requests of one run (they overlap freely when there are
\* several).
MaxRequests == 1
\* Number of requests that overlap in a run that looks at the upload
\* directory alone.
MaxConcurrent == 2
\* Largest reading of the database clock (func.now()).
MaxTime == 1
\* Largest number of line segments HoughLinesP reports on an image.
MaxLines == 50
\* Largest number of rows of the history table a query runs over.
MaxRows == 2
\* Largest number of alerts posted to the in-memory store.
MaxAlerts == 2
\* Largest number of items of a payload the alerts API answers with.
MaxPayload == 2
\* Number of server processes that handle forum requests side by side.
MaxWorkers == 1
\* Number of server processes that handle likes side by side.
MaxLikeWorkers == 2
\* Largest number of comments the forum holds.
MaxComments == 3
\* Number of server processes that handle comments side by side.
MaxCommentWorkers == 2
\* Largest page number asked of the list of posts.
MaxPage == 3
\* Latest time of the clock, in units of ten minutes.
MaxClock == 2
\* Largest number of failed attempts counted for a user.
MaxAttempts == 2
\* Number of threads of the pool that run auth handlers, one after another
\* and side by side.
MaxAuthThreads == 1
MaxOtpThreads == 2

\* ------------------------------------------------------- program constants
\* utils/image_check.py: `len(lines) > 20`.
LINE_CUTOFF == 20

\* routers/scalp.py: `limit: int = Query(50, ge=1, le=1000)`.
LIMIT_GE == 1
LIMIT_LE == 1000

\* routers/swing.py: Query(..., enum=["H1", "D1", "W1"]).
SwingTimeframes == {"H1", "D1", "W1"}
\* routers/scalp.py: Query(..., enum=["M1", "M5", "M15", "M30", "H1"]).
ScalpTimeframes == {"M1", "M5", "M15", "M30", "H1"}

\* The copies of the endpoint, by the application that serves them: app.py
\* is an application of its own (app = FastAPI(...)), the two routers are
\* mounted together and share UPLOAD_DIR and the history table.
Deployments == {"app", "routers"}
Variants(d) == IF d = "app" THEN {"app"} ELSE {"swing", "scalp"}
Routers == {"swing", "scalp"}

\* The enumerated set the endpoint declares for its timeframe parameter
\* (app.py's endpoint takes no timeframe).
DeclaredTimeframes(v) ==
    IF v = "swing" THEN SwingTimeframes
    ELSE IF v = "scalp" THEN ScalpTimeframes
    ELSE {}

\* Keys of the JSON schema the prompt fixes (gemini_helper.py lines 31-50).
RequiredKeys ==
    {"signal", "confidence", "entry", "stop_loss", "take_profit",
     "risk_reward_ratio", "timeframe", "technical_analysis",
     "recommendation", "dynamic_stop_loss", "dynamic_take_profit"}

\* ------------------------------------------------------------------ inputs
\* "-" stands for a parameter or a field that is absent.
Absent == "-"

\* Timeframe query strings a caller may send: one that both routers
\* declare, one that neither declares, and none at all.
TimeframeInputs == {"H1", "H4", Absent}

\* An uploaded image as the Chart Gate sees it: whether cv2.imread can
\* decode it, and what HoughLinesP reports on it (-1: None, else the number
\* of line segments).
NoLines == -1
Images ==
    {[readable |-> FALSE, lines |-> NoLines]}
    \cup [readable : {TRUE}, lines : {LINE_CUTOFF, LINE_CUTOFF + 1}]
NoImage == [readable |-> FALSE, lines |-> -2]
\* What a write that failed half-way leaves on disk: nothing imread decodes.
TruncatedFile == [readable |-> FALSE, lines |-> NoLines]

\* A JSON value as far as the pipeline can tell values apart: its type, the
\* top-level keys of an object, and the values under "signal", "timeframe".
JsonValue(type, keys, signal, tf) ==
    [type |-> type, keys |-> keys, signal |-> signal, timeframe |-> tf]
NoValue == JsonValue("none", {}, Absent, Absent)

\* An analysis of the declared shape, for timeframe tf.
SchemaValue(signal, tf) == JsonValue("object", RequiredKeys, signal, tf)
\* The object the prompt tells the model to answer with on a timeframe
\* mismatch (gemini_helper.py lines 26-28).
ErrorObject == JsonValue("object", {"error"}, Absent, Absent)
\* An object that lacks most of the required keys.
PartialObject == JsonValue("object", {"signal", "confidence"}, "BUY", Absent)
\* JSON that is no object at all.
ArrayValue == JsonValue("array", {}, Absent, Absent)

\* Whether a JSON value conforms to the declared AnalysisResult shape.
ConformsToShape(v) == v.type = "object" /\ RequiredKeys \subseteq v.keys

\* A text: either the JSON encoding of a value or something json.loads
\* rejects.
JsonText(v) == [json |-> TRUE, val |-> v]
NotJsonText == [json |-> FALSE, val |-> NoValue]

\* json.loads / json.dumps on these texts.
json_loads(t) == [ok |-> t.json, val |-> t.val]
json_dumps(v) == JsonText(v)

\* What the model may generate for a prompt that names timeframe tf.
GeneratedTexts(tf) ==
    {NotJsonText}
    \cup {JsonText(SchemaValue(s, tf)) : s \in {"BUY", "SELL"}}
    \cup {JsonText(SchemaValue("BUY", "W1")), JsonText(SchemaValue("HOLD", tf)),
          JsonText(ErrorObject), JsonText(PartialObject), JsonText(ArrayValue)}

\* The body of an upstream HTTP reply: env tells how far
\* raw["candidates"][0]["content"]["parts"][0]["text"] gets on it.
\*   "not_json"  resp.json() raises
\*   "no_key"    a key of the path is missing (KeyError)
\*   "no_item"   a list of the path is empty (IndexError)
\*   "ok"        the path ends in text
Body(env, text) == [env |-> env, text |-> text]
NoBody == Body("none", NotJsonText)
Bodies(tf) ==
    {Body(e, NotJsonText) : e \in {"not_json", "no_key", "no_item"}}
    \cup {Body("ok", t) : t \in GeneratedTexts(tf)}

\* What requests.post comes back with: net = "response" with the status and
\* body of an HTTP reply, or net = "error" when it raises a
\* requests.exceptions.RequestException (connection error, timeout) and
\* there is no reply.  Statuses: success, a 2xx that is not 200 and an
\* error status; an error reply's body is JSON without
\* "candidates".
NoStatus == 0
UpstreamStatuses == {200, 204, 429}
Reply(net, status, body) == [net |-> net, status |-> status, body |-> body]
NoReply == Reply("none", NoStatus, NoBody)
TransportError == Reply("error", NoStatus, NoBody)
Replies(tf) ==
    {TransportError}
    \cup {Reply("response", 200, b) : b \in Bodies(tf)}
    \cup {Reply("response", s, Body("no_key", NotJsonText)) :
             s \in UpstreamStatuses \ {200}}

\* ------------------------------------------------- the Analysis Requestor
\* How a call of analyze_image_with_gemini ends: raised = "none" and the
\* returned value, or the exception it raises (an HTTPException carries
\* status_code and detail).
NoDetail == [msg |-> Absent, upstream_status |-> NoStatus, upstream_body |-> NoBody]
Returned(v) ==
    [raised |-> "none", status_code |-> NoStatus, detail |-> NoDetail, value |-> v]
Raised(exc) ==
    [raised |-> exc, status_code |-> NoStatus, detail |-> NoDetail, value |-> NoValue]
HTTPException(code, msg, ustatus, ubody) ==
    [raised |-> "HTTPException", status_code |-> code,
     detail |-> [msg |-> msg, upstream_status |-> ustatus, upstream_body |-> ubody],
     value |-> NoValue]
NoOutcome == Raised("pending")

\* Fault: a parse that swallows its exceptions and hands back an empty
\* object where the envelope or the text is malformed.
ParseEnvelope_Swallows(body) ==
    IF body.env = "ok" /\ json_loads(body.text).ok
    THEN Returned(json_loads(body.text).val)
    ELSE Returned(JsonValue("object", {}, Absent, Absent))

\* raw["candidates"][0]["content"]["parts"][0]["text"] followed by
\* json.loads, on the body of a reply.
ParseEnvelope(body) ==
    IF body.env = "not_json" THEN Raised("JSONDecodeError")
    ELSE IF body.env = "no_key" THEN Raised("KeyError")
    ELSE IF body.env = "no_item" THEN Raised("IndexError")
    ELSE IF ~json_loads(body.text).ok THEN Raised("JSONDecodeError")
    ELSE Returned(json_loads(body.text).val)

\* Fault: the 502 of utils/gemini_helper.py raised without resp.text.
helper_analyze_image_with_gemini_NoBody(reply) ==
    IF reply.net = "error" THEN Raised("RequestException")
    ELSE IF reply.status # 200
         THEN HTTPException(502, "AI API error", NoStatus, NoBody)
    ELSE ParseEnvelope(reply.body)

\* utils/gemini_helper.py: requests.post is not guarded, a status other
\* than 200 raises HTTPException(502, "AI API error: {resp.text}"), and
\* the parse is not guarded either.
helper_analyze_image_with_gemini(reply) ==
    IF reply.net = "error" THEN Raised("RequestException")
    ELSE IF reply.status # 200
         THEN HTTPException(502, "AI API error", NoStatus, reply.body)
    ELSE ParseEnvelope(reply.body)

\* Response.raise_for_status(): raises HTTPError for 4xx and 5xx only.
raise_for_status(status) == 400 <= status /\ status < 600

\* app.py: RequestException (raise_for_status's HTTPError included, whose
\* message names the status) becomes HTTPException(502, "... {e}"), and
\* KeyError, IndexError, JSONDecodeError of the parse become
\* HTTPException(500).
app_analyze_image_with_gemini(reply) ==
    IF reply.net = "error"
    THEN HTTPException(502, "Error communicating with the AI API", NoStatus, NoBody)
    ELSE IF raise_for_status(reply.status)
    THEN HTTPException(502, "Error communicating with the AI API", reply.status, NoBody)
    ELSE IF ParseEnvelope(reply.body).raised # "none"
    THEN HTTPException(500, "Failed to parse the structured JSON", NoStatus, NoBody)
    ELSE ParseEnvelope(reply.body)

analyze_image_with_gemini(v, reply) ==
    IF v = "app" THEN app_analyze_image_with_gemini(reply)
    ELSE helper_analyze_image_with_gemini(reply)

\* ------------------------------------------------------- the Chart Gate
\* Fault: the comparison admits the cutoff itself.
is_trading_chart_AtLeast(img) ==
    IF ~img.readable THEN FALSE
    ELSE img.lines # NoLines /\ img.lines >= LINE_CUTOFF

\* utils/image_check.py: False when imread gives None, else
\* `lines is not None and len(lines) > 20`.
is_trading_chart(img) ==
    IF ~img.readable THEN FALSE
    ELSE img.lines # NoLines /\ img.lines > LINE_CUTOFF

\* ------------------------------------------------------ HTTP responses
\* What the caller gets: kind "result" (the handler returned), "error" (an
\* HTTPException), "unhandled" (any other exception: 500 Internal Server
\* Error) or "validation" (FastAPI refused the parameters: 422).
Response(status, kind, body, detail) ==
    [status |-> status, kind |-> kind, body |-> body, detail |-> detail]
NoResponse == Response(NoStatus, "none", NoValue, NoDetail)

\* FastAPI's mapping of a raised exception to the response.
ExceptionResponse(o) ==
    IF o.raised = "HTTPException"
    THEN Response(o.status_code, "error", NoValue, o.detail)
    ELSE Response(500, "unhandled", NoValue, NoDetail)

\* FastAPI's check of the timeframe query parameter, declared as
\*   timeframe: str = Query(..., enum=[...])
\* `...` makes it required; `enum=` is an extra keyword of Query that goes
\* to the OpenAPI schema only and is not used to validate the value.
QueryAccepts(v, tf) == v = "app" \/ tf # Absent

\* ------------------------------------------------------------------- state
VARIABLES
    deployment, \* which application serves the requests of this run
    pc,         \* where each request stands in its handler
    variant,    \* the endpoint the request was sent to
    timeframe,  \* its timeframe query parameter
    upload,     \* the image it uploads (file.read())
    path,       \* the file it saved under UPLOAD_DIR (0: none)
    uploads,    \* the upload directory: file id -> content
    next_file,  \* uuid.uuid4(): the next id that was never handed out
    sent,       \* the outbound calls the request made to the model endpoint
    reply,      \* what the call it waits for comes back with
    outcome,    \* the value or the exception its work ended with
    response,   \* the HTTP response it got
    record,     \* the id of the history row it committed (0: none)
    history     \* table swing_analysis_history, in insertion order

vars == <<deployment, pc, variant, timeframe, upload, path, uploads, next_file, sent,
          reply, outcome, response, record, history>>

\* A call of the Chart Gate on its own (utils/image_check.py).
VARIABLES
    gate_pc,     \* "off", "called", "returned"
    gate_image,  \* the image at image_path
    gate_result  \* what is_trading_chart returned

gate_vars == <<gate_pc, gate_image, gate_result>>

\* A call of GET /history (get_swing_history of either router).
VARIABLES
    hist_pc,       \* "off", "called", "answered"
    hist_query,    \* the router asked and its limit parameter
    hist_response  \* the status and the rows of the answer

hist_vars == <<hist_pc, hist_query, hist_response>>

\* The alert store of routers/alerts.py and the poller of schemas/swing.py.
VARIABLES
    ALERTS_ENABLED,  \* the configuration read at import
    ALERTS_API_URL,
    alerts,          \* routers/alerts.py: the in-memory list
    startup_done,    \* start_alert_sync_task has run
    poller_pc,       \* the background task: "none", "startup", "fetching",
                     \* "sleeping"
    last_tick        \* how the latest sync_alerts_from_remote ended

alert_vars == <<ALERTS_ENABLED, ALERTS_API_URL, alerts, startup_done, poller_pc,
                last_tick>>

\* The forum (routers/forum.py over the tables of models.py).
VARIABLES
    posts,       \* forum_posts: id -> row
    post_likes,  \* post_likes: how many rows the table holds per (user, post)
    comments,    \* forum_comments: id -> row
    req          \* per server process: the forum request it handles

forum_vars == <<posts, post_likes, comments, req>>

VARIABLES
    list_table,    \* forum_posts as GET /forum/posts reads it: id -> row
    list_query,    \* the query parameters other than page
    list_response  \* page -> what get_posts answered for that page

list_vars == <<list_table, list_query, list_response>>

VARIABLES
    auth_user,  \* users: the row of the one phone number and email
    clock,      \* datetime.utcnow()
    auth_req    \* the request each thread of the pool handles

auth_vars == <<auth_user, clock, auth_req>>

\* The state of the handlers that were added last.
rest_vars == <<list_vars, auth_vars>>

\* Everything of the run that the chart-analysis handlers do not touch.
outside == <<gate_vars, hist_vars, alert_vars, forum_vars, rest_vars>>

GateIdle ==
    /\ gate_pc = "off"
    /\ gate_image = NoImage
    /\ gate_result = FALSE

NoQuery == [variant |-> "-", limit |-> 0]
HistoryResponse(status, rows) == [status |-> status, rows |-> rows]
NoHistoryResponse == HistoryResponse(NoStatus, <<>>)

HistoryIdle ==
    /\ hist_pc = "off"
    /\ hist_query = NoQuery
    /\ hist_response = NoHistoryResponse

\* A tick of the poller: how the fetch ended, the payload it got, the list
\* sync_alerts_from_remote returned, and what list_price_alerts returns
\* when the tick is over.
Tick(status, payload, returned, store) ==
    [status |-> status, payload |-> payload, returned |-> returned,
     store |-> store]
NoTick == Tick("none", <<>>, <<>>, <<>>)

AlertsIdle ==
    /\ ALERTS_ENABLED = FALSE
    /\ ALERTS_API_URL = Absent
    /\ alerts = <<>>
    /\ startup_done = FALSE
    /\ poller_pc = "none"
    /\ last_tick = NoTick

\* Users (each authenticated by get_current_user) and post ids.
Users == {"u1", "u2"}
PostIds == {1, 2}
Workers == DOMAIN req

\* A row of forum_posts, as far as the handlers tell rows apart, and the id
\* no row has.
PostRow(author, locked) ==
    [exists |-> TRUE, author |-> author, title |-> "t0", content |-> "c0",
     category_id |-> 1, is_locked |-> locked, is_deleted |-> FALSE]
MissingPost ==
    [exists |-> FALSE, author |-> Absent, title |-> Absent, content |-> Absent,
     category_id |-> 0, is_locked |-> FALSE, is_deleted |-> FALSE]

\* ForumCommentBase.parent_id: None.
NoParent == -1
CommentIds == 1..MaxComments

\* A row of forum_comments (its content left out), and the id no row has.
CommentRow(author, post, parent, deleted) ==
    [exists |-> TRUE, author |-> author, post_id |-> post, parent_id |-> parent,
     is_deleted |-> deleted]
MissingComment ==
    [exists |-> FALSE, author |-> Absent, post_id |-> 0, parent_id |-> NoParent,
     is_deleted |-> FALSE]
NoComments == [c \in CommentIds |-> MissingComment]

\* ForumPostUpdate: the fields a PUT sets ("-" and 0: the field is unset).
NoUpdate == [title |-> Absent, content |-> Absent, category_id |-> 0]
UpdateInputs == {[title |-> "t1", content |-> Absent, category_id |-> 2]}

\* What a forum handler answers: the status and the fields of the body the
\* handlers differ in.
ForumResponse(status) ==
    [status |-> status, liked |-> FALSE, like_count |-> 0, ids |-> {},
     total_posts |-> 0]
NoForumResponse == ForumResponse(NoStatus)

\* A server process with no request.
IdleRequest ==
    [op |-> "none", user |-> "u1", post |-> 1, update |-> NoUpdate, pc |-> "idle",
     existing_like |-> FALSE, gone |-> {}, parent_id |-> NoParent,
     comment_id |-> 0, response |-> NoForumResponse]

ForumIdle ==
    /\ posts = [p \in PostIds |-> MissingPost]
    /\ post_likes = [l \in Users \X PostIds |-> 0]
    /\ comments = NoComments
    /\ req = [w \in 1..MaxWorkers |-> IdleRequest]

NoPath == 0
NoRecord == 0
\* The requests of the run.
Requests == DOMAIN pc

\* The outbound call: the timeframe the prompt names and the image bytes it
\* embeds (base64 of the file read back from `path`).
Payload(tf, img) == [prompt_timeframe |-> tf, inline_data |-> img]

\* Fault: the row is built without the result.
HistoryRow_Blank(id, t, result) ==
    [id |-> id, created_at |-> t, analysis |-> json_dumps(NoValue)]

\* models.SwingAnalysisHistory(analysis=result): id is the serial primary
\* key, created_at the server's now(), analysis goes through
\* JSONEncodedDict.process_bind_param (json.dumps).
HistoryRow(id, t, result) ==
    [id |-> id, created_at |-> t, analysis |-> json_dumps(result)]

\* JSONEncodedDict.process_result_value: the analysis a row reads back as.
process_result_value(row) == json_loads(row.analysis).val

\* Query(None) of category_id, and the bounds Query declares for per_page.
NoCategory == -1
PER_PAGE_GE == 1
PER_PAGE_LE == 100

ListedPosts == {1, 2, 3}
Pages == 0..MaxPage

\* A row of forum_posts with what get_posts reads of it: `matches` says
\* whether title or content holds the search term, likes and the two
\* comment numbers count the rows joined to it.
ListRow(deleted, pinned, category, created, matches, likes, live, dead) ==
    [is_deleted |-> deleted, is_pinned |-> pinned, category_id |-> category,
     created_at |-> created, matches |-> matches, likes |-> likes,
     live_comments |-> live, deleted_comments |-> dead]

\* The query parameters of GET /forum/posts other than page; search says
\* whether a search term is given.
ListQuery(category, search, sort_by, sort_order, per_page, pinned_first) ==
    [category_id |-> category, search |-> search, sort_by |-> sort_by,
     sort_order |-> sort_order, per_page |-> per_page,
     pinned_first |-> pinned_first]
NoListQuery == ListQuery(NoCategory, FALSE, Absent, Absent, 0, FALSE)

\* ForumPostList with the ids of its posts in order; `loaded` holds the
\* ids of the rows the query returned, before they are enriched.
ListResponse(status, loaded, listed, total, page, per_page, has_next, has_prev) ==
    [status |-> status, loaded |-> loaded, posts |-> listed, total |-> total,
     page |-> page, per_page |-> per_page, has_next |-> has_next,
     has_prev |-> has_prev]
NoListResponse == ListResponse(NoStatus, <<>>, <<>>, 0, 0, 0, FALSE, FALSE)

ListIdle ==
    /\ list_table = [p \in ListedPosts |->
                        ListRow(TRUE, FALSE, 1, 0, FALSE, 0, 0, 0)]
    /\ list_query = NoListQuery
    /\ list_response = [k \in Pages |-> NoListResponse]

\* timedelta(minutes=10), in units of ten minutes.
OTP_TTL == 1
\* The codes random.randint(1000, 9999) draws, and a column that is NULL.
Otps == {"1111", "2222"}
NoOtp == Absent
NoExpiry == -1
Passwords == {"pw1", "pw2"}
\* The threads of the pool that runs the handlers.
Threads == DOMAIN auth_req

\* The row of users (name, email and phone left out), and no row.
UserRow(verified, password, otp, expiry, attempts) ==
    [exists |-> TRUE, is_verified |-> verified, password_hash |-> password,
     otp_code |-> otp, otp_expiry |-> expiry, attempts |-> attempts]
NoUser ==
    [exists |-> FALSE, is_verified |-> FALSE, password_hash |-> Absent,
     otp_code |-> NoOtp, otp_expiry |-> NoExpiry, attempts |-> 0]

\* What an auth handler answers: the status, the "status" of its body and
\* whether it set the access_token cookie.
AuthResponse(status, body, token) ==
    [status |-> status, body |-> body, token |-> token]
NoAuthResponse == AuthResponse(NoStatus, Absent, FALSE)

\* A thread: the handler it runs, the OTP it was sent, the row the handler
\* loaded (seen) and the row as the handler has set its attributes (new),
\* whether an OTP is sent after the commit, and the answer.
AuthRequest(op, at, otp, seen, new, sends, resp) ==
    [op |-> op, pc |-> at, otp |-> otp, seen |-> seen, new |-> new,
     sends |-> sends, response |-> resp]
IdleThread == AuthRequest("none", "idle", NoOtp, NoUser, NoUser, FALSE, NoAuthResponse)

AuthIdle ==
    /\ auth_user = NoUser
    /\ clock = 0
    /\ auth_req = [t \in 1..MaxAuthThreads |-> IdleThread]

RestIdle == ListIdle /\ AuthIdle

Init ==
    /\ RestIdle
    /\ deployment \in Deployments
    /\ pc = [r \in 1..MaxRequests |-> "idle"]
    /\ variant = [r \in 1..MaxRequests |-> "app"]
    /\ timeframe = [r \in 1..MaxRequests |-> Absent]
    /\ upload = [r \in 1..MaxRequests |-> NoImage]
    /\ path = [r \in 1..MaxRequests |-> NoPath]
    /\ uploads = [f \in 1..MaxRequests |-> NoImage]
    /\ next_file = 1
    /\ sent = [r \in 1..MaxRequests |-> <<>>]
    /\ reply = [r \in 1..MaxRequests |-> NoReply]
    /\ outcome = [r \in 1..MaxRequests |-> NoOutcome]
    /\ response = [r \in 1..MaxRequests |-> NoResponse]
    /\ record = [r \in 1..MaxRequests |-> NoRecord]
    /\ history = <<>>
    /\ GateIdle
    /\ HistoryIdle
    /\ AlertsIdle
    /\ ForumIdle

\* The request ends with response resp.
Finish(r, resp) ==
    /\ response' = [response EXCEPT ![r] = resp]
    /\ pc' = [pc EXCEPT ![r] = "done"]

\* Fault: the file is left where it is.
Remove_Skipped(f) == uploads

\* os.remove(path).
Remove(f) == [uploads EXCEPT ![f] = NoImage]

\* ----------------------------------------------------------------- actions
\* A request arrives (requests are numbered in their order of arrival) and
\* FastAPI validates its parameters before the handler runs.
Receive(r, v, tf, img) ==
    /\ pc[r] = "idle"
    /\ \A q \in Requests : q < r => pc[q] # "idle"
    /\ v \in Variants(deployment)
    /\ tf = Absent \/ v # "app"
    /\ variant' = [variant EXCEPT ![r] = v]
    /\ timeframe' = [timeframe EXCEPT ![r] = tf]
    /\ upload' = [upload EXCEPT ![r] = img]
    /\ IF QueryAccepts(v, tf)
       THEN /\ pc' = [pc EXCEPT ![r] = "save"]
            /\ UNCHANGED response
       ELSE Finish(r, Response(422, "validation", NoValue, NoDetail))
    /\ UNCHANGED <<deployment, path, uploads, next_file, sent, reply, outcome,
                   record, history>>
    /\ UNCHANGED outside

\* Fault: the file is saved under a fixed name instead of a fresh uuid.
SaveUpload_SharedName(r) ==
    /\ pc[r] = "save"
    /\ path' = [path EXCEPT ![r] = 1]
    /\ uploads' = [uploads EXCEPT ![1] = upload[r]]
    /\ pc' = [pc EXCEPT ![r] = IF variant[r] = "app" THEN "call" ELSE "gate"]
    /\ UNCHANGED <<deployment, variant, timeframe, upload, next_file, sent, reply,
                   outcome, response, record, history>>
    /\ UNCHANGED outside

\* 1) Save upload: file_id = uuid4(); open(path, "wb"); write(file.read()).
SaveUpload(r) ==
    /\ pc[r] = "save"
    /\ path' = [path EXCEPT ![r] = next_file]
    /\ next_file' = next_file + 1
    /\ uploads' = [uploads EXCEPT ![next_file] = upload[r]]
    /\ pc' = [pc EXCEPT ![r] = IF variant[r] = "app" THEN "call" ELSE "gate"]
    /\ UNCHANGED <<deployment, variant, timeframe, upload, sent, reply, outcome, response,
                   record, history>>
    /\ UNCHANGED outside

\* The save raises IOError/OSError: open() fails and there is no file, or
\* write() fails and the file open() created stays behind.  app.py turns
\* it into HTTPException(500), the routers do not catch it.
SaveFails(r, created) ==
    /\ pc[r] = "save"
    /\ path' = [path EXCEPT ![r] = next_file]
    /\ next_file' = next_file + 1
    /\ uploads' = IF created THEN [uploads EXCEPT ![next_file] = TruncatedFile]
                  ELSE uploads
    /\ outcome' = [outcome EXCEPT ![r] = Raised("OSError")]
    /\ Finish(r, IF variant[r] = "app"
                 THEN ExceptionResponse(
                        HTTPException(500, "Failed to save uploaded file",
                                      NoStatus, NoBody))
                 ELSE ExceptionResponse(Raised("OSError")))
    /\ UNCHANGED <<deployment, variant, timeframe, upload, sent, reply, record,
                   history>>
    /\ UNCHANGED outside

\* Fault: the gate's verdict is ignored and the handler goes on.
ChartGate_Ignored(r) ==
    /\ pc[r] = "gate"
    /\ pc' = [pc EXCEPT ![r] = "call"]
    /\ UNCHANGED <<deployment, variant, timeframe, upload, path, uploads,
                   next_file, sent, reply, outcome, response, record, history>>
    /\ UNCHANGED outside

\* Fault: the gate has no `if img is None` and cv2.Canny raises on the file
\* imread could not decode; the handler does not catch it.
ChartGate_RaisesOnUnreadable(r) ==
    /\ pc[r] = "gate"
    /\ IF ~uploads[path[r]].readable
       THEN /\ outcome' = [outcome EXCEPT ![r] = Raised("cv2.error")]
            /\ Finish(r, ExceptionResponse(Raised("cv2.error")))
            /\ UNCHANGED uploads
       ELSE IF is_trading_chart(uploads[path[r]])
       THEN /\ pc' = [pc EXCEPT ![r] = "call"]
            /\ UNCHANGED <<uploads, response, outcome>>
       ELSE /\ uploads' = Remove(path[r])
            /\ Finish(r, Response(400, "error", NoValue,
                      [msg |-> "Please upload a valid trading chart image.",
                       upstream_status |-> NoStatus, upstream_body |-> NoBody]))
            /\ UNCHANGED outcome
    /\ UNCHANGED <<deployment, variant, timeframe, upload, path, next_file, sent, reply,
                   record, history>>
    /\ UNCHANGED outside

\* 2) Validate it is a chart: `if not is_trading_chart(path)` removes the
\* file and raises HTTPException(400).
ChartGate(r) ==
    /\ pc[r] = "gate"
    /\ IF is_trading_chart(uploads[path[r]])
       THEN /\ pc' = [pc EXCEPT ![r] = "call"]
            /\ UNCHANGED <<uploads, response>>
       ELSE /\ uploads' = Remove(path[r])
            /\ Finish(r, Response(400, "error", NoValue,
                      [msg |-> "Please upload a valid trading chart image.",
                       upstream_status |-> NoStatus, upstream_body |-> NoBody]))
    /\ UNCHANGED <<deployment, variant, timeframe, upload, path, next_file, sent, reply,
                   outcome, record, history>>
    /\ UNCHANGED outside

\* 3) analyze_image_with_gemini, up to requests.post: read the file back,
\* build the prompt around the timeframe, send.
CallUpstream(r) ==
    /\ pc[r] = "call"
    /\ sent' = [sent EXCEPT ![r] =
                  Append(@, Payload(timeframe[r], uploads[path[r]]))]
    /\ pc' = [pc EXCEPT ![r] = "wait"]
    /\ UNCHANGED <<deployment, variant, timeframe, upload, path, uploads, next_file, reply,
                   outcome, response, record, history>>
    /\ UNCHANGED outside

\* Fault: a call that failed in transport is sent again.
UpstreamAnswers_Retries(r, rep) ==
    /\ pc[r] = "wait"
    /\ rep \in Replies(sent[r][Len(sent[r])].prompt_timeframe)
    /\ reply' = [reply EXCEPT ![r] = rep]
    /\ IF rep = TransportError
       THEN /\ pc' = [pc EXCEPT ![r] = "call"]
            /\ UNCHANGED <<outcome, uploads, response>>
       ELSE /\ outcome' = [outcome EXCEPT ![r] =
                              analyze_image_with_gemini(variant[r], rep)]
            /\ uploads' = Remove(path[r])
            /\ IF outcome'[r].raised # "none"
               THEN Finish(r, ExceptionResponse(outcome'[r]))
               ELSE IF variant[r] = "app"
               THEN Finish(r, Response(200, "result", outcome'[r].value, NoDetail))
               ELSE /\ pc' = [pc EXCEPT ![r] = "persist"]
                    /\ UNCHANGED response
    /\ UNCHANGED <<deployment, variant, timeframe, upload, path, next_file, sent,
                   record, history>>
    /\ UNCHANGED outside

\* requests.post comes back (with a reply, or raising), the rest of
\* analyze_image_with_gemini runs on it, and `finally: os.remove(path)`
\* follows in the same thread; an exception of the analysis then leaves the
\* handler.  app.py has no history: it returns the result here.
UpstreamAnswers(r, rep) ==
    /\ pc[r] = "wait"
    /\ rep \in Replies(sent[r][Len(sent[r])].prompt_timeframe)
    /\ reply' = [reply EXCEPT ![r] = rep]
    /\ outcome' = [outcome EXCEPT ![r] = analyze_image_with_gemini(variant[r], rep)]
    /\ uploads' = Remove(path[r])
    /\ IF outcome'[r].raised # "none"
       THEN Finish(r, ExceptionResponse(outcome'[r]))
       ELSE IF variant[r] = "app"
       THEN Finish(r, Response(200, "result", outcome'[r].value, NoDetail))
       ELSE /\ pc' = [pc EXCEPT ![r] = "persist"]
            /\ UNCHANGED response
    /\ UNCHANGED <<deployment, variant, timeframe, upload, path, next_file, sent,
                   record, history>>
    /\ UNCHANGED outside

\* 4) Persist into history: db.add(record); db.commit().  The row gets the
\* next serial id and the database's now() as created_at.
Persist(r, t) ==
    /\ pc[r] = "persist"
    /\ t \in 0..MaxTime
    /\ history' = Append(history, HistoryRow(Len(history) + 1, t, outcome[r].value))
    /\ record' = [record EXCEPT ![r] = Len(history) + 1]
    /\ pc' = [pc EXCEPT ![r] = "refresh"]
    /\ UNCHANGED <<deployment, variant, timeframe, upload, path, uploads,
                   next_file, sent, reply, outcome, response>>
    /\ UNCHANGED outside

\* db.commit() raises (the database is unreachable): nothing is stored.
PersistFails(r) ==
    /\ pc[r] = "persist"
    /\ Finish(r, ExceptionResponse(Raised("OperationalError")))
    /\ UNCHANGED <<deployment, variant, timeframe, upload, path, uploads, next_file, sent,
                   reply, outcome, record, history>>
    /\ UNCHANGED outside

\* db.refresh(record); 5) return result.
Return(r) ==
    /\ pc[r] = "refresh"
    /\ Finish(r, Response(200, "result", outcome[r].value, NoDetail))
    /\ UNCHANGED <<deployment, variant, timeframe, upload, path, uploads, next_file, sent,
                   reply, outcome, record, history>>
    /\ UNCHANGED outside

\* db.refresh(record) raises after the commit went through.
RefreshFails(r) ==
    /\ pc[r] = "refresh"
    /\ Finish(r, ExceptionResponse(Raised("OperationalError")))
    /\ UNCHANGED <<deployment, variant, timeframe, upload, path, uploads, next_file, sent,
                   reply, outcome, record, history>>
    /\ UNCHANGED outside

Next ==
    \E r \in Requests :
        \/ \E v \in {"app", "swing", "scalp"}, tf \in TimeframeInputs, img \in Images :
              Receive(r, v, tf, img)
        \/ SaveUpload(r)
        \/ \E created \in BOOLEAN : SaveFails(r, created)
        \/ ChartGate(r)
        \/ CallUpstream(r)
        \/ \E rep \in Replies(timeframe[r]) : UpstreamAnswers(r, rep)
        \/ \E t \in 0..MaxTime : Persist(r, t)
        \/ PersistFails(r)
        \/ Return(r)
        \/ RefreshFails(r)

Spec == Init /\ [][Next]_vars

\* ------------------------------------- overlapping requests and uploads
\* Uploads that differ in their bytes: one the gate refuses, two it accepts.
PairImages == [readable : {TRUE}, lines : LINE_CUTOFF..(LINE_CUTOFF + 2)]

\* What the call comes back with, as far as the upload directory can tell:
\* it raises, or it yields a result.
PairReplies(tf) ==
    {TransportError, Reply("response", 200, Body("ok", JsonText(SchemaValue("BUY", tf))))}

InitPair ==
    /\ RestIdle
    /\ deployment \in Deployments
    /\ pc = [r \in 1..MaxConcurrent |-> "idle"]
    /\ variant = [r \in 1..MaxConcurrent |-> "app"]
    /\ timeframe = [r \in 1..MaxConcurrent |-> Absent]
    /\ upload = [r \in 1..MaxConcurrent |-> NoImage]
    /\ path = [r \in 1..MaxConcurrent |-> NoPath]
    /\ uploads = [f \in 1..MaxConcurrent |-> NoImage]
    /\ next_file = 1
    /\ sent = [r \in 1..MaxConcurrent |-> <<>>]
    /\ reply = [r \in 1..MaxConcurrent |-> NoReply]
    /\ outcome = [r \in 1..MaxConcurrent |-> NoOutcome]
    /\ response = [r \in 1..MaxConcurrent |-> NoResponse]
    /\ record = [r \in 1..MaxConcurrent |-> NoRecord]
    /\ history = <<>>
    /\ GateIdle
    /\ HistoryIdle
    /\ AlertsIdle
    /\ ForumIdle

\* The handlers' steps, interleaved between the requests.
NextPair ==
    \E r \in Requests :
        \/ \E v \in {"app", "swing", "scalp"}, tf \in {"H1", Absent},
              img \in PairImages : Receive(r, v, tf, img)
        \/ SaveUpload(r)
        \/ SaveFails(r, TRUE)
        \/ ChartGate(r)
        \/ CallUpstream(r)
        \/ \E rep \in PairReplies(timeframe[r]) : UpstreamAnswers(r, rep)
        \/ Persist(r, 0)
        \/ Return(r)

SpecPair == InitPair /\ [][NextPair]_<<vars, outside>>

\* ------------------------------------------- the Chart Gate on its own
\* The handlers at rest, while another part of the program is looked at.
HandlersIdle ==
    /\ deployment = "routers"
    /\ pc = [r \in 1..MaxRequests |-> "done"]
    /\ variant = [r \in 1..MaxRequests |-> "app"]
    /\ timeframe = [r \in 1..MaxRequests |-> Absent]
    /\ upload = [r \in 1..MaxRequests |-> NoImage]
    /\ path = [r \in 1..MaxRequests |-> NoPath]
    /\ uploads = [f \in 1..MaxRequests |-> NoImage]
    /\ next_file = 1
    /\ sent = [r \in 1..MaxRequests |-> <<>>]
    /\ reply = [r \in 1..MaxRequests |-> NoReply]
    /\ outcome = [r \in 1..MaxRequests |-> NoOutcome]
    /\ response = [r \in 1..MaxRequests |-> NoResponse]
    /\ record = [r \in 1..MaxRequests |-> NoRecord]

PipelineIdle == HandlersIdle /\ history = <<>>

\* The files is_trading_chart may be pointed at: one imread cannot decode,
\* and decodable ones on which HoughLinesP reports None or 0..MaxLines
\* segments.
GateImages ==
    {[readable |-> FALSE, lines |-> NoLines]}
    \cup [readable : {TRUE}, lines : {NoLines} \cup 0..MaxLines]

InitGate ==
    /\ RestIdle
    /\ PipelineIdle
    /\ HistoryIdle
    /\ AlertsIdle
    /\ ForumIdle
    /\ gate_pc = "called"
    /\ gate_image \in GateImages
    /\ gate_result = FALSE

\* is_trading_chart(image_path) runs and returns.
CheckImage ==
    /\ gate_pc = "called"
    /\ gate_result' = is_trading_chart(gate_image)
    /\ gate_pc' = "returned"
    /\ UNCHANGED <<gate_image, vars, hist_vars, alert_vars, forum_vars, rest_vars>>

NextGate == CheckImage

SpecGate == InitGate /\ [][NextGate]_<<vars, outside>>

\* --------------------------------------------------- the history endpoint
\* The tables the query may run over: rows in insertion order, each with
\* its serial id, the created_at the database gave it, and an analysis as
\* analyze_chart stores them (it stores whatever JSON was parsed).
StoredAnalyses == {SchemaValue("BUY", "H1"), ArrayValue}
HistoryTables ==
    UNION {{tab \in [1..n -> [id : 1..n, created_at : 0..MaxTime,
                              analysis : {json_dumps(a) : a \in StoredAnalyses}]] :
               \A i \in 1..n : tab[i].id = i} : n \in 0..MaxRows}

\* Limits a caller may send: negative, zero, around the size of the table,
\* and past the upper end scalp.py declares.
LimitInputs == {-1, 0} \cup 1..(MaxRows + 1) \cup {LIMIT_LE + 1}

\* FastAPI's validation of `limit`: scalp.py declares ge=1, le=1000,
\* swing.py a plain int.
LimitAccepted(v, limit) ==
    v = "swing" \/ (LIMIT_GE <= limit /\ limit <= LIMIT_LE)

Min(a, b) == IF a <= b THEN a ELSE b

\* .order_by(created_at.desc()): the orders the database may produce the
\* rows in (rows of equal created_at come in any order).
OrderByCreatedAtDesc(tab) ==
    {ord \in [1..Len(tab) -> 1..Len(tab)] :
        /\ \A i, j \in 1..Len(tab) : i # j => ord[i] # ord[j]
        /\ \A i \in 1..(Len(tab) - 1) :
              tab[ord[i]].created_at >= tab[ord[i + 1]].created_at}

\* The ORM rows of a result, as the handler returns them: analysis has gone
\* through process_result_value.
LoadedRows(tab, ord, n) ==
    [i \in 1..n |-> [id |-> tab[ord[i]].id,
                     created_at |-> tab[ord[i]].created_at,
                     analysis |-> process_result_value(tab[ord[i]])]]

\* response_model=List[SwingAnalysisHistoryItem]: `analysis: Dict[str, Any]`
\* admits JSON objects only.
ResponseModelAccepts(rows) ==
    \A i \in 1..Len(rows) : rows[i].analysis.type = "object"

InitHistory ==
    /\ RestIdle
    /\ HandlersIdle
    /\ history \in HistoryTables
    /\ GateIdle
    /\ AlertsIdle
    /\ ForumIdle
    /\ hist_pc = "called"
    /\ hist_query = NoQuery
    /\ hist_response = NoHistoryResponse

\* GET /history?limit=...: validation, the query, and the serialisation of
\* the rows.  A negative limit reaches the database from swing.py only;
\* the database either refuses it (PostgreSQL) or takes it for no limit
\* (SQLite).
get_swing_history(v, limit) ==
    /\ hist_pc = "called"
    /\ hist_query' = [variant |-> v, limit |-> limit]
    /\ hist_pc' = "answered"
    /\ IF ~LimitAccepted(v, limit)
       THEN hist_response' = HistoryResponse(422, <<>>)
       ELSE \/ /\ limit < 0
               /\ hist_response' = HistoryResponse(500, <<>>)
            \/ \E ord \in OrderByCreatedAtDesc(history) :
                 LET n == IF limit < 0 THEN Len(history)
                          ELSE Min(limit, Len(history))
                     rows == LoadedRows(history, ord, n)
                 IN hist_response' =
                        IF ResponseModelAccepts(rows)
                        THEN HistoryResponse(200, rows)
                        ELSE HistoryResponse(500, <<>>)
    /\ UNCHANGED <<vars, gate_vars, alert_vars, forum_vars, rest_vars>>

NextHistory ==
    \E v \in Routers, limit \in LimitInputs : get_swing_history(v, limit)

SpecHistory == InitHistory /\ [][NextHistory]_<<vars, outside>>

\* ------------------------------------------------------ the alert poller
\* An item of a fetched payload: PriceAlert(**item) validates or raises.
PayloadItems == [id : {"a", "b"}, valid : {TRUE}] \cup {[id |-> "x", valid |-> FALSE]}
\* An alert a client posts to /price.
PostedAlert == [id |-> "p", valid |-> TRUE]

\* The payloads the alerts API may answer with.
Payloads == UNION {[1..n -> PayloadItems] : n \in 0..MaxPayload}

\* The list sync_alerts_from_remote builds from a payload: the items that
\* validate, in order.
ValidAlerts(payload) == SelectSeq(payload, LAMBDA item : item.valid)

\* How the fetch of a tick may end: a 2xx reply with a JSON list, a 4xx/5xx
\* reply (raise_for_status), no reply (httpx.RequestError), or a reply
\* whose body is no JSON list (any other Exception).
FetchOutcomes ==
    {[status |-> "ok", payload |-> pl] : pl \in Payloads}
    \cup {[status |-> st, payload |-> <<>>] :
             st \in {"http_error", "request_error", "error"}}
FailedStatuses == {"http_error", "request_error", "error"}

\* `not ALERTS_ENABLED or not ALERTS_API_URL` is false.
SyncEnabled == ALERTS_ENABLED /\ ALERTS_API_URL # Absent

\* list_price_alerts: `return alerts`.
list_price_alerts == alerts

InitAlerts ==
    /\ RestIdle
    /\ PipelineIdle
    /\ GateIdle
    /\ HistoryIdle
    /\ ForumIdle
    /\ ALERTS_ENABLED \in BOOLEAN
    /\ ALERTS_API_URL \in {Absent, "https://alerts"}
    /\ alerts = <<>>
    /\ startup_done = FALSE
    /\ poller_pc = "none"
    /\ last_tick = NoTick

\* create_price_alert: alerts.append(alert).
create_price_alert ==
    /\ Len(alerts) < MaxAlerts
    /\ alerts' = Append(alerts, PostedAlert)
    /\ UNCHANGED <<ALERTS_ENABLED, ALERTS_API_URL, startup_done, poller_pc, last_tick>>

\* start_alert_sync_task: returns when syncing is disabled, else creates
\* the task, which starts with `await asyncio.sleep(5)`.
start_alert_sync_task ==
    /\ ~startup_done
    /\ startup_done' = TRUE
    /\ poller_pc' = IF SyncEnabled THEN "startup" ELSE "none"
    /\ UNCHANGED <<ALERTS_ENABLED, ALERTS_API_URL, alerts, last_tick>>

\* _periodic_alert_sync: a sleep is over (the initial delay or
\* SYNC_INTERVAL) and sync_alerts_from_remote starts its fetch.
SleepEnds ==
    /\ poller_pc \in {"startup", "sleeping"}
    /\ SyncEnabled
    /\ poller_pc' = "fetching"
    /\ UNCHANGED <<ALERTS_ENABLED, ALERTS_API_URL, alerts, startup_done, last_tick>>

\* Fault: a failed fetch raises out of the loop and the task ends.
FetchEnds_StopsOnFailure(out) ==
    /\ poller_pc = "fetching"
    /\ out \in FetchOutcomes
    /\ last_tick' = Tick(out.status, out.payload, ValidAlerts(out.payload),
                         list_price_alerts)
    /\ poller_pc' = IF out.status \in FailedStatuses THEN "none" ELSE "sleeping"
    /\ UNCHANGED <<ALERTS_ENABLED, ALERTS_API_URL, alerts, startup_done>>

\* The rest of sync_alerts_from_remote: the fetch ends, a local list
\* `alerts` is built from the payload and returned ([] after a failure);
\* _periodic_alert_sync drops the value and goes to sleep.  The list of
\* routers/alerts.py is not assigned.
FetchEnds(out) ==
    /\ poller_pc = "fetching"
    /\ out \in FetchOutcomes
    /\ last_tick' = Tick(out.status, out.payload, ValidAlerts(out.payload),
                         list_price_alerts)
    /\ poller_pc' = "sleeping"
    /\ UNCHANGED <<ALERTS_ENABLED, ALERTS_API_URL, alerts, startup_done>>

PollerStep == SleepEnds \/ \E out \in FetchOutcomes : FetchEnds(out)

NextAlerts ==
    \/ create_price_alert /\ UNCHANGED <<vars, gate_vars, hist_vars, forum_vars, rest_vars>>
    \/ start_alert_sync_task /\ UNCHANGED <<vars, gate_vars, hist_vars, forum_vars, rest_vars>>
    \/ SleepEnds /\ UNCHANGED <<vars, gate_vars, hist_vars, forum_vars, rest_vars>>
    \/ /\ \E out \in FetchOutcomes : FetchEnds(out)
       /\ UNCHANGED <<vars, gate_vars, hist_vars, forum_vars, rest_vars>>

\* The event loop resumes the task when its sleep is over, and the fetch
\* ends within the client's timeout (httpx.AsyncClient(timeout=10)).
SpecAlerts ==
    /\ InitAlerts
    /\ [][NextAlerts]_<<vars, outside>>
    /\ WF_alert_vars(PollerStep)

\* --------------------------------------------------------------- the forum
\* Each server process handles one request at a time, and a handler
\* (`async def` around blocking database calls) runs without interruption
\* within its process; the statements of handlers in different processes
\* interleave on the database, where every commit is seen by the statements
\* after it.
not_forum == <<vars, gate_vars, hist_vars, alert_vars, rest_vars>>

\* db.query(ForumPost).filter(id == post_id, is_deleted == False).first()
\* finds a row.
LivePost(p) == posts[p].exists /\ ~posts[p].is_deleted
LivePosts == {p \in PostIds : LivePost(p)}

\* The rows of post_likes for post p: .count().
LikeCount(p) == LET Sum[U \in SUBSET Users] ==
                        IF U = {} THEN 0
                        ELSE LET u == CHOOSE x \in U : TRUE
                             IN post_likes[<<u, p>>] + Sum[U \ {u}]
                IN Sum[Users]

\* for field, value in update_data.items(): setattr(post, field, value).
ApplyUpdate(row, upd) ==
    [row EXCEPT !.title = IF upd.title = Absent THEN @ ELSE upd.title,
                !.content = IF upd.content = Absent THEN @ ELSE upd.content,
                !.category_id = IF upd.category_id = 0 THEN @ ELSE upd.category_id]

InitForum ==
    /\ RestIdle
    /\ PipelineIdle
    /\ GateIdle
    /\ HistoryIdle
    /\ AlertsIdle
    /\ \E locked \in BOOLEAN :
          posts = [p \in PostIds |-> IF p = 1 THEN PostRow("u1", locked)
                                     ELSE MissingPost]
    /\ post_likes = [l \in Users \X PostIds |-> 0]
    /\ comments = NoComments
    /\ req = [w \in 1..MaxWorkers |-> IdleRequest]

\* The handler of process w goes on at `at`.
Step(w, at) == req' = [req EXCEPT ![w].pc = at]

\* models.py: the columns and the relationships of User.
UserAttributes ==
    {"id", "name", "email", "phone", "password_hash", "is_verified", "otp_code",
     "otp_expiry", "attempts", "forum_posts", "forum_comments", "liked_posts",
     "liked_comments"}

\* The status of a handler that builds its answer from attribute attr of a
\* User: an attribute the class does not have raises AttributeError, which
\* is answered 500.
ReadsUser(attr) == IF attr \in UserAttributes THEN 200 ELSE 500
\* The handler of process w ends with response resp (and its locals go).
Answer(w, resp) ==
    req' = [req EXCEPT ![w].pc = "done", ![w].response = resp,
                       ![w].existing_like = FALSE]

ForumOps ==
    {"update_post", "delete_post", "get_post", "get_posts", "get_forum_stats",
     "create_comment", "delete_comment", "toggle_post_like"}

\* A request reaches a free process.  `gone` notes the posts that are
\* deleted at that moment.
Arrive(w, op, u, p, upd) ==
    /\ req[w].pc \in {"idle", "done"}
    /\ op \in ForumOps
    /\ (op = "update_post") = (upd # NoUpdate)
    /\ req' = [req EXCEPT ![w] =
                 [op |-> op, user |-> u, post |-> p, update |-> upd, pc |-> "read",
                  existing_like |-> FALSE,
                  gone |-> {q \in PostIds : posts[q].exists /\ posts[q].is_deleted},
                  parent_id |-> NoParent, comment_id |-> 0,
                  response |-> NoForumResponse]]
    /\ UNCHANGED <<posts, post_likes, comments, not_forum>>

\* Fault: the author is not compared with the caller.
update_post_check_AnyUser(w) ==
    /\ req[w].op = "update_post" /\ req[w].pc = "read"
    /\ IF ~LivePost(req[w].post) THEN Answer(w, ForumResponse(404))
       ELSE IF posts[req[w].post].is_locked THEN Answer(w, ForumResponse(400))
       ELSE Step(w, "write")
    /\ UNCHANGED <<posts, post_likes, comments, not_forum>>

\* update_post up to its checks: 404 for no live post, 403 for a caller
\* who is not the author, 400 for a locked post.
update_post_check(w) ==
    /\ req[w].op = "update_post" /\ req[w].pc = "read"
    /\ IF ~LivePost(req[w].post) THEN Answer(w, ForumResponse(404))
       ELSE IF posts[req[w].post].author # req[w].user
       THEN Answer(w, ForumResponse(403))
       ELSE IF posts[req[w].post].is_locked THEN Answer(w, ForumResponse(400))
       ELSE Step(w, "write")
    /\ UNCHANGED <<posts, post_likes, comments, not_forum>>

\* update_post from setattr on: the fields are written and committed, and
\* the answer is get_post's (404 when the post was deleted meanwhile).
update_post_commit(w) ==
    /\ req[w].op = "update_post" /\ req[w].pc = "write"
    /\ posts' = [posts EXCEPT ![req[w].post] = ApplyUpdate(@, req[w].update)]
    /\ Answer(w, ForumResponse(IF LivePost(req[w].post) THEN ReadsUser("username")
                               ELSE 404))
    /\ UNCHANGED <<post_likes, comments, not_forum>>

\* delete_post up to its checks; the query does not filter on is_deleted.
delete_post_check(w) ==
    /\ req[w].op = "delete_post" /\ req[w].pc = "read"
    /\ IF ~posts[req[w].post].exists THEN Answer(w, ForumResponse(404))
       ELSE IF posts[req[w].post].author # req[w].user
       THEN Answer(w, ForumResponse(403))
       ELSE Step(w, "write")
    /\ UNCHANGED <<posts, post_likes, comments, not_forum>>

\* post.is_deleted = True; db.commit().
delete_post_commit(w) ==
    /\ req[w].op = "delete_post" /\ req[w].pc = "write"
    /\ posts' = [posts EXCEPT ![req[w].post].is_deleted = TRUE]
    /\ Answer(w, ForumResponse(200))
    /\ UNCHANGED <<post_likes, comments, not_forum>>

\* get_post: 404 for no live post; for a live one the answer is built with
\* post.author.username (the view counter it bumps is left out).
get_post(w) ==
    /\ req[w].op = "get_post" /\ req[w].pc = "read"
    /\ Answer(w, ForumResponse(IF LivePost(req[w].post) THEN ReadsUser("username")
                               ELSE 404))
    /\ UNCHANGED <<posts, post_likes, comments, not_forum>>

\* get_posts without filters: the posts that are not deleted, and their
\* number; each post of the page is enriched with post.author.username.
get_posts(w) ==
    /\ req[w].op = "get_posts" /\ req[w].pc = "read"
    /\ LET status == IF LivePosts = {} THEN 200 ELSE ReadsUser("username")
       IN Answer(w, IF status = 200
                    THEN [ForumResponse(200) EXCEPT
                              !.ids = LivePosts,
                              !.total_posts = Cardinality(LivePosts)]
                    ELSE ForumResponse(status))
    /\ UNCHANGED <<posts, post_likes, comments, not_forum>>

\* get_forum_stats: total_posts and recent_posts, each recent post built
\* with post.author.username.
get_forum_stats(w) ==
    /\ req[w].op = "get_forum_stats" /\ req[w].pc = "read"
    /\ LET status == IF LivePosts = {} THEN 200 ELSE ReadsUser("username")
       IN Answer(w, IF status = 200
                    THEN [ForumResponse(200) EXCEPT
                              !.ids = LivePosts,
                              !.total_posts = Cardinality(LivePosts)]
                    ELSE ForumResponse(status))
    /\ UNCHANGED <<posts, post_likes, comments, not_forum>>

\* create_comment up to its checks of the post.
create_comment_check(w) ==
    /\ req[w].op = "create_comment" /\ req[w].pc = "read"
    /\ IF ~LivePost(req[w].post) THEN Answer(w, ForumResponse(404))
       ELSE IF posts[req[w].post].is_locked THEN Answer(w, ForumResponse(400))
       ELSE Step(w, "parent")
    /\ UNCHANGED <<posts, post_likes, comments, not_forum>>

\* db.query(ForumComment).filter(id == parent_id, post_id == post_id,
\* is_deleted == False).first() finds a row.
LiveCommentOf(c, p) ==
    /\ c \in CommentIds
    /\ comments[c].exists
    /\ comments[c].post_id = p
    /\ ~comments[c].is_deleted

\* create_comment at `if comment.parent_id:` with the parent_id of the
\* body: None and 0 skip the lookup, every other id is looked up among the
\* comments of the post that are not deleted, 404 when it is not there.
create_comment_parent(w, parent) ==
    /\ req[w].op = "create_comment" /\ req[w].pc = "parent"
    /\ IF parent \notin {NoParent, 0} /\ ~LiveCommentOf(parent, req[w].post)
       THEN req' = [req EXCEPT ![w].pc = "done", ![w].parent_id = parent,
                               ![w].response = ForumResponse(404)]
       ELSE req' = [req EXCEPT ![w].pc = "write", ![w].parent_id = parent]
    /\ UNCHANGED <<posts, post_likes, comments, not_forum>>

\* The id the database gives the next row of forum_comments.
NextCommentId == Cardinality({c \in CommentIds : comments[c].exists}) + 1

\* db.add(db_comment); db.commit(): the row is stored, unless its parent_id
\* refers to no row (the foreign key refuses it, answered 500).  The answer
\* is then built with current_user.username.
create_comment_commit(w) ==
    /\ req[w].op = "create_comment" /\ req[w].pc = "write"
    /\ NextCommentId \in CommentIds
    /\ IF /\ req[w].parent_id # NoParent
          /\ ~(req[w].parent_id \in CommentIds /\ comments[req[w].parent_id].exists)
       THEN /\ comments' = comments
            /\ Answer(w, ForumResponse(500))
       ELSE /\ comments' = [comments EXCEPT ![NextCommentId] =
                              CommentRow(req[w].user, req[w].post,
                                         req[w].parent_id, FALSE)]
            /\ Answer(w, ForumResponse(ReadsUser("username")))
    /\ UNCHANGED <<posts, post_likes, not_forum>>

\* delete_comment of the comment_id of the path, up to its checks.
delete_comment_check(w, c) ==
    /\ req[w].op = "delete_comment" /\ req[w].pc = "read"
    /\ IF ~(c \in CommentIds /\ comments[c].exists)
       THEN req' = [req EXCEPT ![w].pc = "done", ![w].comment_id = c,
                               ![w].response = ForumResponse(404)]
       ELSE IF comments[c].author # req[w].user
       THEN req' = [req EXCEPT ![w].pc = "done", ![w].comment_id = c,
                               ![w].response = ForumResponse(403)]
       ELSE req' = [req EXCEPT ![w].pc = "write", ![w].comment_id = c]
    /\ UNCHANGED <<posts, post_likes, comments, not_forum>>

\* comment.is_deleted = True; db.commit().
delete_comment_commit(w) ==
    /\ req[w].op = "delete_comment" /\ req[w].pc = "write"
    /\ comments' = [comments EXCEPT ![req[w].comment_id].is_deleted = TRUE]
    /\ Answer(w, ForumResponse(200))
    /\ UNCHANGED <<posts, post_likes, not_forum>>

\* Fault: the post is looked up without the is_deleted filter.
toggle_post_like_check_AnyPost(w) ==
    /\ req[w].op = "toggle_post_like" /\ req[w].pc = "read"
    /\ IF ~posts[req[w].post].exists THEN Answer(w, ForumResponse(404))
       ELSE req' = [req EXCEPT ![w].pc = "write",
                               ![w].existing_like =
                                   post_likes[<<req[w].user, req[w].post>>] > 0]
    /\ UNCHANGED <<posts, post_likes, comments, not_forum>>

\* toggle_post_like up to existing_like: 404 for no live post, else the
\* lookup of the caller's like.
toggle_post_like_check(w) ==
    /\ req[w].op = "toggle_post_like" /\ req[w].pc = "read"
    /\ IF ~LivePost(req[w].post) THEN Answer(w, ForumResponse(404))
       ELSE req' = [req EXCEPT ![w].pc = "write",
                               ![w].existing_like =
                                   post_likes[<<req[w].user, req[w].post>>] > 0]
    /\ UNCHANGED <<posts, post_likes, comments, not_forum>>

\* Fault: post_likes has no primary key and takes any row.
InsertLike_NoPrimaryKey(u, p) ==
    [ok |-> TRUE, table |-> [post_likes EXCEPT ![<<u, p>>] = @ + 1]]

\* post_likes.insert(): the primary key (user_id, post_id) refuses a pair
\* the table holds (IntegrityError).
InsertLike(u, p) ==
    IF post_likes[<<u, p>>] > 0 THEN [ok |-> FALSE, table |-> post_likes]
    ELSE [ok |-> TRUE, table |-> [post_likes EXCEPT ![<<u, p>>] = 1]]

\* post_likes.delete().where(...): every row of the pair goes.
DeleteLike(u, p) == [post_likes EXCEPT ![<<u, p>>] = 0]

\* toggle_post_like: the delete or the insert, and db.commit().  An
\* IntegrityError leaves the handler (500).
toggle_post_like_write(w) ==
    /\ req[w].op = "toggle_post_like" /\ req[w].pc = "write"
    /\ IF req[w].existing_like
       THEN /\ post_likes' = DeleteLike(req[w].user, req[w].post)
            /\ req' = [req EXCEPT ![w].pc = "count", ![w].response.liked = FALSE]
       ELSE LET ins == InsertLike(req[w].user, req[w].post)
            IN /\ post_likes' = ins.table
               /\ IF ins.ok
                  THEN req' = [req EXCEPT ![w].pc = "count",
                                          ![w].response.liked = TRUE]
                  ELSE Answer(w, ForumResponse(500))
    /\ UNCHANGED <<posts, comments, not_forum>>

\* toggle_post_like: like_count and the answer.
toggle_post_like_count(w) ==
    /\ req[w].op = "toggle_post_like" /\ req[w].pc = "count"
    /\ Answer(w, [req[w].response EXCEPT !.status = 200,
                                        !.like_count = LikeCount(req[w].post)])
    /\ UNCHANGED <<posts, post_likes, comments, not_forum>>

\* The requests sent to the forum: updates by either user of the post and
\* of the id no post has, deletions by either user, and one of every other
\* request on the post.
ForumRequests ==
    {<<"update_post", u, p, upd>> : u \in Users, p \in PostIds, upd \in UpdateInputs}
    \cup {<<"delete_post", u, 1, NoUpdate>> : u \in Users}
    \cup {<<op, "u2", 1, NoUpdate>> :
             op \in ForumOps \ {"update_post", "delete_post"}}

NextForum ==
    \E w \in Workers :
        \/ \E a \in ForumRequests : Arrive(w, a[1], a[2], a[3], a[4])
        \/ update_post_check(w)
        \/ update_post_commit(w)
        \/ delete_post_check(w)
        \/ delete_post_commit(w)
        \/ get_post(w)
        \/ get_posts(w)
        \/ get_forum_stats(w)
        \/ create_comment_check(w)
        \/ create_comment_parent(w, NoParent)
        \/ create_comment_commit(w)
        \/ toggle_post_like_check(w)
        \/ toggle_post_like_write(w)
        \/ toggle_post_like_count(w)

SpecForum == InitForum /\ [][NextForum]_<<vars, outside>>

\* ------------------------------------------------ likes on their own
\* Two posts that are there to like; the first user likes the second post
\* already, and either user sends likes for the first.
LikeRequests == {<<"toggle_post_like", u, 1, NoUpdate>> : u \in Users}

InitLikes ==
    /\ RestIdle
    /\ PipelineIdle
    /\ GateIdle
    /\ HistoryIdle
    /\ AlertsIdle
    /\ posts = [p \in PostIds |-> PostRow(IF p = 1 THEN "u1" ELSE "u2", FALSE)]
    /\ post_likes = [l \in Users \X PostIds |-> IF l = <<"u1", 2>> THEN 1 ELSE 0]
    /\ comments = NoComments
    /\ req = [w \in 1..MaxLikeWorkers |-> IdleRequest]

NextLikes ==
    \E w \in Workers :
        \/ \E a \in LikeRequests : Arrive(w, a[1], a[2], a[3], a[4])
        \/ toggle_post_like_check(w)
        \/ toggle_post_like_write(w)
        \/ toggle_post_like_count(w)

SpecLikes == InitLikes /\ [][NextLikes]_<<vars, outside>>

\* ---------------------------------------------------- comments on posts
\* Two posts, the first open, each with a comment u2 wrote; u2 comments,
\* the authors delete.
ParentInputs == {NoParent, 0} \cup CommentIds
CommentRequests ==
    {<<"create_comment", "u2", p, NoUpdate>> : p \in PostIds}
    \cup {<<"delete_post", "u1", 1, NoUpdate>>,
          <<"delete_comment", "u2", 1, NoUpdate>>}

InitComments ==
    /\ RestIdle
    /\ PipelineIdle
    /\ GateIdle
    /\ HistoryIdle
    /\ AlertsIdle
    /\ \E locked \in BOOLEAN :
          posts = [p \in PostIds |-> IF p = 1 THEN PostRow("u1", FALSE)
                                     ELSE PostRow("u2", locked)]
    /\ post_likes = [l \in Users \X PostIds |-> 0]
    /\ \E deleted \in BOOLEAN :
          comments = [c \in CommentIds |->
                        IF c = 1 THEN CommentRow("u2", 1, NoParent, FALSE)
                        ELSE IF c = 2 THEN CommentRow("u2", 2, NoParent, deleted)
                        ELSE MissingComment]
    /\ req = [w \in 1..MaxCommentWorkers |-> IdleRequest]

NextComments ==
    \E w \in Workers :
        \/ \E a \in CommentRequests : Arrive(w, a[1], a[2], a[3], a[4])
        \/ create_comment_check(w)
        \/ \E parent \in ParentInputs : create_comment_parent(w, parent)
        \/ create_comment_commit(w)
        \/ delete_post_check(w)
        \/ delete_post_commit(w)
        \/ \E c \in {1, 2} : delete_comment_check(w, c)
        \/ delete_comment_commit(w)

SpecComments == InitComments /\ [][NextComments]_<<vars, outside>>

\* ------------------------------------------------------ the list of posts
\* The posts the filters of query q keep: not deleted, of the category when
\* category_id is truthy, holding the search term when there is one.
Matching(tab, q) ==
    {p \in ListedPosts :
        /\ ~tab[p].is_deleted
        /\ q.category_id \notin {NoCategory, 0} => tab[p].category_id = q.category_id
        /\ q.search => tab[p].matches}

\* order_col: the column or the count of joined rows the query sorts by.
\* The outer join with forum_comments counts every comment of the post.
OrderCol(row, sort_by) ==
    IF sort_by = "likes" THEN row.likes
    ELSE IF sort_by = "comments" THEN row.live_comments + row.deleted_comments
    ELSE row.created_at

\* ORDER BY allows row a before row b.
MayPrecede(a, b, q) ==
    IF q.pinned_first /\ a.is_pinned # b.is_pinned THEN a.is_pinned
    ELSE IF q.sort_order = "desc"
    THEN OrderCol(a, q.sort_by) >= OrderCol(b, q.sort_by)
    ELSE OrderCol(a, q.sort_by) <= OrderCol(b, q.sort_by)

\* The orders in which the database may return the matching posts.
Orderings(tab, q) ==
    LET S == Matching(tab, q)
    IN {ord \in [1..Cardinality(S) -> S] :
           /\ \A i, j \in DOMAIN ord : i # j => ord[i] # ord[j]
           /\ \A i, j \in DOMAIN ord :
                 i < j => MayPrecede(tab[ord[i]], tab[ord[j]], q)}

\* query.offset((page - 1) * per_page).limit(per_page).
PageOf(ord, page, per_page) ==
    LET offset == (page - 1) * per_page
    IN IF offset >= Len(ord) THEN <<>>
       ELSE SubSeq(ord, offset + 1, Min(offset + per_page, Len(ord)))

\* post.like_count and post.comment_count, as get_posts reports them.
like_count(p) == list_table[p].likes
comment_count(p) == list_table[p].live_comments

\* GET /forum/posts for page `page` of the query: 422 outside the bounds of
\* page and per_page; else the count, the page of the sorted rows, and the
\* enrichment of each row, which reads post.author.username.
get_posts_page(page) ==
    /\ list_query # NoListQuery
    /\ page \in Pages
    /\ list_response[page] = NoListResponse
    /\ \A k \in Pages : k < page => list_response[k] # NoListResponse
    /\ LET q == list_query
           total == Cardinality(Matching(list_table, q))
       IN IF page < 1 \/ q.per_page < PER_PAGE_GE \/ q.per_page > PER_PAGE_LE
          THEN list_response' = [list_response EXCEPT ![page] =
                   ListResponse(422, <<>>, <<>>, 0, 0, 0, FALSE, FALSE)]
          ELSE \E ord \in Orderings(list_table, q) :
                 LET loaded == PageOf(ord, page, q.per_page)
                     status == IF loaded = <<>> THEN 200
                               ELSE ReadsUser("username")
                 IN list_response' = [list_response EXCEPT ![page] =
                        IF status = 200
                        THEN ListResponse(200, loaded, loaded, total, page,
                                          q.per_page, page * q.per_page < total,
                                          page > 1)
                        ELSE ListResponse(status, loaded, <<>>, 0, 0, 0,
                                          FALSE, FALSE)]
    /\ UNCHANGED <<list_table, list_query, vars, gate_vars, hist_vars,
                   alert_vars, forum_vars, auth_vars>>

\* The tables the pages are taken of: any of the posts deleted or pinned,
\* two categories, creation times that tie, a search term not all hold.
PagedTables ==
    {[p \in ListedPosts |->
         ListRow(deleted[p], pinned[p], IF p = 3 THEN category ELSE 1,
                 IF p = 1 THEN 0 ELSE IF p = 2 THEN created ELSE 1,
                 IF p = 1 THEN matches ELSE TRUE, 0, 0, 0)] :
       deleted \in [ListedPosts -> BOOLEAN], pinned \in [ListedPosts -> BOOLEAN],
       category \in {1, 2}, created \in {0, 1}, matches \in BOOLEAN}

PagedQueries ==
    {ListQuery(category, search, "created_at", sort_order, per_page, pinned_first) :
       category \in {NoCategory, 0, 1}, search \in BOOLEAN,
       sort_order \in {"desc", "asc"}, per_page \in {0, 1, 2},
       pinned_first \in BOOLEAN}

InitPages ==
    /\ PipelineIdle
    /\ GateIdle
    /\ HistoryIdle
    /\ AlertsIdle
    /\ ForumIdle
    /\ AuthIdle
    /\ list_table \in PagedTables
    /\ list_query \in PagedQueries
    /\ list_response = [k \in Pages |-> NoListResponse]

NextPages == \E page \in Pages : get_posts_page(page)

SpecPages == InitPages /\ [][NextPages]_<<vars, outside>>

\* --------------------------------------- the list sorted by its counts
\* Posts with likes, comments and deleted comments (two of them on the
\* first post), the third post perhaps deleted, the first perhaps pinned.
CountedTables ==
    {[p \in ListedPosts |->
         ListRow(p = 3 /\ deleted, p = 1 /\ pinned, 1, 0, TRUE,
                 likes[p], live[p], IF p = 1 THEN 2 * dead[p] ELSE dead[p])] :
       deleted \in BOOLEAN, pinned \in BOOLEAN,
       likes \in [ListedPosts -> 0..1], live \in [ListedPosts -> 0..1],
       dead \in [ListedPosts -> 0..1]}

CountedQueries ==
    {ListQuery(NoCategory, FALSE, sort_by, sort_order, per_page, pinned_first) :
       sort_by \in {"likes", "comments"}, sort_order \in {"desc", "asc"},
       per_page \in {2, 3}, pinned_first \in BOOLEAN}

InitSorted ==
    /\ PipelineIdle
    /\ GateIdle
    /\ HistoryIdle
    /\ AlertsIdle
    /\ ForumIdle
    /\ AuthIdle
    /\ list_table \in CountedTables
    /\ list_query \in CountedQueries
    /\ list_response = [k \in Pages |-> NoListResponse]

NextSorted == \E page \in Pages : get_posts_page(page)

SpecSorted == InitSorted /\ [][NextSorted]_<<vars, outside>>

\* -------------------------------------------------------- authentication
not_auth == <<vars, gate_vars, hist_vars, alert_vars, forum_vars, list_vars>>

\* A thread that is free to take a request.
Free(t) == auth_req[t].pc \in {"idle", "done"}

\* The handler of thread t, which was sent otp, ends with the answer resp.
Answered(t, op, otp, resp) ==
    auth_req' = [auth_req EXCEPT ![t] =
                    AuthRequest(op, "done", otp, NoUser, NoUser, FALSE, resp)]

\* The handler of thread t has loaded row `seen` and set attributes, which
\* give row `new`; db.commit() is next, and resp is answered after it.
Pending(t, op, otp, new, sends, resp) ==
    auth_req' = [auth_req EXCEPT ![t] =
                    AuthRequest(op, "commit", otp, auth_user, new, sends, resp)]

\* The UPDATE a commit flushes: the columns whose attribute differs from
\* the value that was loaded, over the row as it is in the database now.
Flush(cur, seen, new) ==
    [f \in DOMAIN cur |-> IF new[f] # seen[f] THEN new[f] ELSE cur[f]]

\* `if datetime.utcnow() > user.otp_expiry`.
Expired(row) == clock > row.otp_expiry

\* The row with a fresh OTP: otp_code, otp_expiry and attempts = 0.
WithOtp(row, otp) ==
    [row EXCEPT !.otp_code = otp, !.otp_expiry = clock + OTP_TTL, !.attempts = 0]

\* signup_endpoint up to db.commit(): 400 for a verified user; else the row
\* is built or overwritten with the password and a fresh OTP.
signup_endpoint(t, password, otp) ==
    /\ Free(t)
    /\ IF auth_user.exists /\ auth_user.is_verified
       THEN Answered(t, "signup", NoOtp, AuthResponse(400, "error", FALSE))
       ELSE Pending(t, "signup", NoOtp,
                    WithOtp(UserRow(FALSE, password, NoOtp, NoExpiry, 0), otp),
                    TRUE, AuthResponse(201, "otp_sent", FALSE))
    /\ UNCHANGED <<auth_user, clock, not_auth>>

\* verify_signup_otp up to its commit.
verify_signup_otp(t, otp) ==
    /\ Free(t)
    /\ IF ~auth_user.exists
       THEN Answered(t, "verify_signup_otp", otp, AuthResponse(404, "error", FALSE))
       ELSE IF auth_user.is_verified
       THEN Answered(t, "verify_signup_otp", otp, AuthResponse(200, "already_verified", FALSE))
       ELSE IF auth_user.otp_expiry = NoExpiry
       THEN Answered(t, "verify_signup_otp", otp, AuthResponse(500, "error", FALSE))
       ELSE IF Expired(auth_user)
       THEN Answered(t, "verify_signup_otp", otp, AuthResponse(400, "error", FALSE))
       ELSE IF otp # auth_user.otp_code
       THEN /\ auth_user.attempts < MaxAttempts
            /\ Pending(t, "verify_signup_otp", otp,
                       [auth_user EXCEPT !.attempts = @ + 1], FALSE,
                       AuthResponse(400, "error", FALSE))
       ELSE Pending(t, "verify_signup_otp", otp,
                    [auth_user EXCEPT !.is_verified = TRUE, !.otp_code = NoOtp,
                                      !.otp_expiry = NoExpiry, !.attempts = 0],
                    FALSE, AuthResponse(200, "verified", FALSE))
    /\ UNCHANGED <<auth_user, clock, not_auth>>

\* login_email: 401 for no user or a wrong password, 403 for a user who is
\* not verified, else the cookie is set.
login_email(t, password) ==
    /\ Free(t)
    /\ Answered(t, "login_email", NoOtp,
             IF ~auth_user.exists \/ password # auth_user.password_hash
             THEN AuthResponse(401, "error", FALSE)
             ELSE IF ~auth_user.is_verified
             THEN AuthResponse(403, "error", FALSE)
             ELSE AuthResponse(200, "login_successful", TRUE))
    /\ UNCHANGED <<auth_user, clock, not_auth>>

\* request_login_otp up to its commit.
request_login_otp(t, otp) ==
    /\ Free(t)
    /\ IF ~auth_user.exists
       THEN Answered(t, "request_login_otp", NoOtp, AuthResponse(404, "error", FALSE))
       ELSE Pending(t, "request_login_otp", NoOtp, WithOtp(auth_user, otp), TRUE,
                    AuthResponse(200, "otp_sent", FALSE))
    /\ UNCHANGED <<auth_user, clock, not_auth>>

\* verify_login_otp: 404, the comparison with an otp_expiry that is None
\* (TypeError, answered 500), 400 for an expired OTP, the attempt counted
\* for a wrong one, else the cookie is set.
verify_login_otp(t, otp) ==
    /\ Free(t)
    /\ IF ~auth_user.exists
       THEN Answered(t, "verify_login_otp", otp, AuthResponse(404, "error", FALSE))
       ELSE IF auth_user.otp_expiry = NoExpiry
       THEN Answered(t, "verify_login_otp", otp, AuthResponse(500, "error", FALSE))
       ELSE IF Expired(auth_user)
       THEN Answered(t, "verify_login_otp", otp, AuthResponse(400, "error", FALSE))
       ELSE IF otp # auth_user.otp_code
       THEN /\ auth_user.attempts < MaxAttempts
            /\ Pending(t, "verify_login_otp", otp,
                       [auth_user EXCEPT !.attempts = @ + 1], FALSE,
                       AuthResponse(400, "error", FALSE))
       ELSE Answered(t, "verify_login_otp", otp, AuthResponse(200, "login_successful", TRUE))
    /\ UNCHANGED <<auth_user, clock, not_auth>>

\* request_password_reset up to its commit.
request_password_reset(t, otp) ==
    /\ Free(t)
    /\ IF ~auth_user.exists
       THEN Answered(t, "request_password_reset", NoOtp, AuthResponse(404, "error", FALSE))
       ELSE Pending(t, "request_password_reset", NoOtp, WithOtp(auth_user, otp),
                    TRUE, AuthResponse(200, "otp_sent", FALSE))
    /\ UNCHANGED <<auth_user, clock, not_auth>>

\* reset_password up to its commit.
reset_password(t, otp, new_password) ==
    /\ Free(t)
    /\ IF ~auth_user.exists \/ auth_user.otp_expiry = NoExpiry
       THEN Answered(t, "reset_password", otp, AuthResponse(404, "error", FALSE))
       ELSE IF Expired(auth_user)
       THEN Answered(t, "reset_password", otp, AuthResponse(400, "error", FALSE))
       ELSE IF otp # auth_user.otp_code
       THEN /\ auth_user.attempts < MaxAttempts
            /\ Pending(t, "reset_password", otp,
                       [auth_user EXCEPT !.attempts = @ + 1], FALSE,
                       AuthResponse(400, "error", FALSE))
       ELSE Pending(t, "reset_password", otp,
                    [auth_user EXCEPT !.password_hash = new_password,
                                      !.otp_code = NoOtp, !.otp_expiry = NoExpiry,
                                      !.attempts = 0],
                    FALSE, AuthResponse(200, "password_reset_successful", FALSE))
    /\ UNCHANGED <<auth_user, clock, not_auth>>

\* db.commit() of the handler of thread t and what follows it: the row is
\* inserted (refused when the phone and email are there by now, answered
\* 500) or its changed columns are updated; send_whatsapp_otp, where the
\* handler calls it, delivers or raises 502.
Commit(t, delivered) ==
    /\ auth_req[t].pc = "commit"
    /\ auth_req[t].sends \/ delivered
    /\ LET r == auth_req[t]
           refused == ~r.seen.exists /\ auth_user.exists
       IN /\ auth_user' = IF refused THEN auth_user
                          ELSE IF ~r.seen.exists THEN r.new
                          ELSE Flush(auth_user, r.seen, r.new)
          /\ Answered(t, r.op, r.otp,
                   IF refused THEN AuthResponse(500, "error", FALSE)
                   ELSE IF r.sends /\ ~delivered
                   THEN AuthResponse(502, "error", FALSE)
                   ELSE r.response)
    /\ UNCHANGED <<clock, not_auth>>

\* Time passes.
ClockTick ==
    /\ clock < MaxClock
    /\ clock' = clock + 1
    /\ UNCHANGED <<auth_user, auth_req, not_auth>>

InitAuth ==
    /\ PipelineIdle
    /\ GateIdle
    /\ HistoryIdle
    /\ AlertsIdle
    /\ ForumIdle
    /\ ListIdle
    /\ auth_user = NoUser
    /\ clock = 0
    /\ auth_req = [t \in 1..MaxAuthThreads |-> IdleThread]

NextAuth ==
    \/ \E t \in Threads, password \in Passwords, otp \in Otps :
          signup_endpoint(t, password, otp)
    \/ \E t \in Threads, otp \in Otps : verify_signup_otp(t, otp)
    \/ \E t \in Threads, password \in Passwords : login_email(t, password)
    \/ \E t \in Threads, otp \in Otps : request_login_otp(t, otp)
    \/ \E t \in Threads, otp \in Otps : verify_login_otp(t, otp)
    \/ \E t \in Threads, otp \in Otps : request_password_reset(t, otp)
    \/ \E t \in Threads, otp \in Otps, password \in Passwords :
          reset_password(t, otp, password)
    \/ \E t \in Threads, delivered \in BOOLEAN : Commit(t, delivered)
    \/ ClockTick

SpecAuth == InitAuth /\ [][NextAuth]_<<vars, outside>>

\* ------------------------------------------- OTP submissions side by side
\* A user who signed up, verified or not yet, with an OTP that was sent;
\* OTPs are submitted and new ones requested by two threads.
InitOtp ==
    /\ PipelineIdle
    /\ GateIdle
    /\ HistoryIdle
    /\ AlertsIdle
    /\ ForumIdle
    /\ ListIdle
    /\ \E verified \in BOOLEAN :
          auth_user = UserRow(verified, "pw1", "1111", OTP_TTL, 0)
    /\ clock = 0
    /\ auth_req = [t \in 1..MaxOtpThreads |-> IdleThread]

NextOtp ==
    \/ \E t \in Threads, otp \in Otps : verify_signup_otp(t, otp)
    \/ \E t \in Threads : request_login_otp(t, "2222")
    \/ \E t \in Threads, otp \in Otps : verify_login_otp(t, otp)
    \/ \E t \in Threads, otp \in Otps : reset_password(t, otp, "pw2")
    \/ \E t \in Threads : Commit(t, TRUE)
    \/ ClockTick

SpecOtp == InitOtp /\ [][NextOtp]_<<vars, outside>>

\* ------------------------------------------------------------------ claims

\* The request ran analyze_chart of a router and the Chart Gate refused the
\* file it had saved.
GateRejected(r) ==
    /\ pc[r] = "done"
    /\ variant[r] \in Routers
    /\ path[r] # NoPath
    /\ outcome[r].raised # "OSError"
    /\ ~is_trading_chart(upload[r])

\* The request got a 200 reply from the model endpoint that does not parse:
\* the envelope lacks a key or an item, or the generated text is no JSON.
UnparseableReply(r) ==
    /\ pc[r] = "done"
    /\ reply[r].net = "response"
    /\ reply[r].status = 200
    /\ \/ reply[r].body.env \in {"not_json", "no_key", "no_item"}
       \/ reply[r].body.env = "ok" /\ ~reply[r].body.text.json

\* Every history row was committed by one request, and no two requests
\* name the same row.
RowsBelongToRequests ==
    /\ \A i \in 1..Len(history) : \E r \in Requests : record[r] = i
    /\ Len(history) = Cardinality({r \in Requests : record[r] # NoRecord})

\* C1: in analyze_chart of routers/swing.py and routers/scalp.py, a request
\* whose image the Chart Gate rejects ends with HTTP 400, has made no call
\* to the model endpoint and has written no history row.
C1_GateRejectionIs400 ==
    /\ \A r \in Requests :
         GateRejected(r) =>
           /\ response[r].status = 400
           /\ sent[r] = <<>>
           /\ record[r] = NoRecord
    /\ RowsBelongToRequests

C1_Witness ==
    \E r \in Requests : GateRejected(r) /\ response[r].status = 400

\* C2: the chart endpoint never answers 200 with data that does not conform
\* to the declared AnalysisResult shape, and never persists such data.
C2_OnlyConformingResults ==
    /\ \A r \in Requests :
         (pc[r] = "done" /\ variant[r] \in Routers /\ response[r].status = 200) =>
           ConformsToShape(response[r].body)
    /\ \A i \in 1..Len(history) :
         ConformsToShape(process_result_value(history[i]))

\* C3: when the model replies with the timeframe-mismatch error object, the
\* chart endpoint answers with a server error that is not the gateway
\* error, and persists nothing.
C3_MismatchIsServerError ==
    \A r \in Requests :
      (/\ pc[r] = "done"
       /\ reply[r].net = "response"
       /\ reply[r].status = 200
       /\ reply[r].body = Body("ok", JsonText(ErrorObject))) =>
        /\ response[r].status >= 500
        /\ response[r].status # 502
        /\ record[r] = NoRecord

\* The request got an HTTP reply with a status other than 200.
Non200Reply(r) ==
    pc[r] = "done" /\ reply[r].net = "response" /\ reply[r].status # 200

C5_TransportFailureIs502 ==
    \A r \in Requests :
      (pc[r] = "done" /\ reply[r].net = "error") => response[r].status = 502

\* C6: a 200 reply whose envelope lacks the expected keys or whose
\* generated text is not valid JSON ends in an error that is not the 502
\* gateway error, and no result is returned or stored.
C6_ParseErrorIsNot502 ==
    \A r \in Requests :
      UnparseableReply(r) =>
        /\ response[r].status = 500
        /\ response[r].kind \in {"error", "unhandled"}
        /\ response[r].body = NoValue
        /\ record[r] = NoRecord

C6_Witness ==
    \E r \in Requests :
      /\ UnparseableReply(r)
      /\ reply[r].body.env = "ok"
      /\ variant[r] \in Routers
      /\ response[r].status = 500

\* C7: once a chart-analysis request has finished, whatever its outcome,
\* the image file it saved under the upload directory no longer exists.
C7_UploadRemovedWhenDone ==
    \A r \in Requests :
      (pc[r] = "done" /\ path[r] # NoPath /\ outcome[r].raised # "OSError") =>
        uploads[path[r]] = NoImage

C7_Witness ==
    \E r \in Requests :
      /\ pc[r] = "done"
      /\ path[r] # NoPath
      /\ outcome[r].raised \notin {"none", "OSError", "pending"}
      /\ uploads[path[r]] = NoImage

\* C8: a request that returns the analysis has committed exactly one
\* history row holding that analysis before it responds; a request that
\* fails at the gate, at the upstream call or at the parse adds no row.
C8_HistoryAllOrNothing ==
    /\ \A r \in Requests :
         (pc[r] = "done" /\ variant[r] \in Routers /\ response[r].status = 200) =>
           /\ record[r] \in 1..Len(history)
           /\ process_result_value(history[record[r]]) = response[r].body
    /\ \A r \in Requests :
         (pc[r] = "done" /\ (GateRejected(r) \/ outcome[r].raised # "none")) =>
           record[r] = NoRecord
    /\ RowsBelongToRequests

C8_Witness ==
    \E r \in Requests :
      /\ pc[r] = "done"
      /\ variant[r] \in Routers
      /\ response[r].status = 200
      /\ record[r] # NoRecord
      /\ Len(history) = 1

\* C9: a request whose timeframe is not in the endpoint's enumerated set
\* is rejected with a client error before the handler runs: it saves no
\* file, never reaches the Chart Gate or the upstream call, and its
\* timeframe is never put into a prompt.
C9_UndeclaredTimeframeRejected ==
    \A r \in Requests :
      (/\ pc[r] # "idle"
       /\ variant[r] \in Routers
       /\ timeframe[r] \notin DeclaredTimeframes(variant[r])) =>
        /\ pc[r] = "done"
        /\ response[r].status \in 400..499
        /\ path[r] = NoPath
        /\ sent[r] = <<>>

\* C10: every request with timeframe T that ends in HTTP 200 has a body
\* whose timeframe is T and whose signal is BUY or SELL.
C10_ResultEchoesTimeframe ==
    \A r \in Requests :
      (pc[r] = "done" /\ variant[r] \in Routers /\ response[r].status = 200) =>
        /\ response[r].body.timeframe = timeframe[r]
        /\ response[r].body.signal \in {"BUY", "SELL"}

\* C11: is_trading_chart returns True exactly when the line detector
\* reports more than 20 segments: False when it reports None or any number
\* up to and including 20 (and when the file cannot be decoded, so that the
\* detector never runs), True for every larger number.
C11_GateTrueAboveTwentyLines ==
    gate_pc = "returned" =>
        /\ gate_result = TRUE <=>
              (gate_image.readable /\ gate_image.lines # NoLines
               /\ gate_image.lines >= 21)
        /\ (gate_image.lines = NoLines \/ gate_image.lines <= 20)
              => gate_result = FALSE

\* The gate returned False on exactly 20 segments.
C11_Witness ==
    /\ gate_pc = "returned"
    /\ gate_image.readable
    /\ gate_image.lines = 20
    /\ gate_result = FALSE

\* C12: an upload that cannot be decoded makes is_trading_chart return
\* False without raising, so a router that saved it answers 400 (an
\* HTTPException), not an unhandled error, and sends nothing upstream.
C12_UnreadableUploadIs400 ==
    \A r \in Requests :
        (/\ pc[r] = "done"
         /\ variant[r] \in Routers
         /\ path[r] # NoPath
         /\ outcome[r].raised # "OSError"
         /\ ~upload[r].readable)
        => /\ response[r].status = 400
           /\ response[r].kind = "error"
           /\ outcome[r] = NoOutcome
           /\ sent[r] = <<>>

\* A router saved an undecodable upload and has answered it.
C12_Witness ==
    \E r \in Requests :
        /\ pc[r] = "done"
        /\ variant[r] \in Routers
        /\ path[r] # NoPath
        /\ upload[r] = [readable |-> FALSE, lines |-> NoLines]
        /\ uploads[path[r]] = NoImage
        /\ response[r].status = 400

\* C13: a request makes at most one outbound call to the model endpoint,
\* whatever the call comes back with (a failed call is not sent again), and
\* a router makes it only for an upload the Chart Gate accepted; a request
\* that has not reached the call, or was refused before it, made none.
C13_AtMostOneCallAfterGate ==
    \A r \in Requests :
        /\ Len(sent[r]) <= 1
        /\ pc[r] \in {"idle", "save", "gate", "call"} => sent[r] = <<>>
        /\ (sent[r] # <<>> /\ variant[r] \in Routers)
             => (upload[r].readable /\ upload[r].lines > LINE_CUTOFF)

\* A router's one call failed in transport and the request is over.
C13_Witness ==
    \E r \in Requests :
        /\ pc[r] = "done"
        /\ variant[r] \in Routers
        /\ reply[r] = TransportError
        /\ Len(sent[r]) = 1

\* C14: GET /history with a limit L >= 0 over a table of N analyses answers
\* 200 with exactly min(L, N) rows of the table, no row left out is newer
\* than a row returned, and the rows come newest first.
C14_HistoryNewestMinRows ==
    (hist_pc = "answered" /\ hist_query.limit >= 0) =>
        LET rows == hist_response.rows
            ids == {rows[i].id : i \in 1..Len(rows)}
        IN /\ hist_response.status = 200
           /\ Len(rows) = Min(hist_query.limit, Len(history))
           /\ Cardinality(ids) = Len(rows)
           /\ \A i \in 1..Len(rows) :
                 /\ rows[i].id \in 1..Len(history)
                 /\ rows[i].created_at = history[rows[i].id].created_at
           /\ \A i \in 1..Len(rows), k \in 1..Len(history) :
                 k \notin ids => history[k].created_at <= rows[i].created_at
           /\ \A i \in 1..(Len(rows) - 1) :
                 rows[i].created_at >= rows[i + 1].created_at

\* C15: when a tick of the poller succeeded, the in-memory list that
\* list_price_alerts returns is exactly the valid alerts of the payload
\* that tick fetched, with nothing of what it held before.
C15_StoreReplacedByTick ==
    last_tick.status = "ok" => last_tick.store = ValidAlerts(last_tick.payload)

\* C17: with syncing enabled, a tick whose fetch failed is followed by
\* another attempt once the poller has slept; with syncing disabled no
\* task is started and no fetch is ever attempted.
C17_PollerSurvivesFailedTick ==
    /\ [](~SyncEnabled => (poller_pc = "none" /\ last_tick = NoTick))
    /\ (SyncEnabled /\ last_tick.status \in FailedStatuses
          /\ poller_pc # "fetching") ~> (poller_pc = "fetching")

\* The poller fetches again after a tick that failed.
C17_Witness ==
    /\ SyncEnabled
    /\ poller_pc = "fetching"
    /\ last_tick.status \in FailedStatuses

\* C16: requests that overlap do not meet in the upload directory: no two
\* of them save under the same path, the file of a request that is still
\* at work holds the bytes that request uploaded (no other request's save
\* or cleanup touched it), and what a request sends upstream is its own
\* upload.
C16_UploadsDoNotInterfere ==
    \A r \in Requests :
        /\ \A q \in Requests :
              (q # r /\ path[r] # NoPath) => path[q] # path[r]
        /\ pc[r] \in {"gate", "call", "wait"} => uploads[path[r]] = upload[r]
        /\ \A i \in 1..Len(sent[r]) : sent[r][i].inline_data = upload[r]

\* A request that saved later has cleaned up and is over, while one that
\* saved other bytes before it is still at work on its own file.
C16_Witness ==
    \E r, q \in Requests :
        /\ pc[q] = "done"
        /\ sent[q] # <<>>
        /\ uploads[path[q]] = NoImage
        /\ pc[r] = "wait"
        /\ path[r] # NoPath
        /\ path[r] < path[q]
        /\ upload[r] # upload[q]
        /\ uploads[path[r]] = upload[r]

\* The step is the check of process w's request `op`, and it ends the
\* request.
FailsAtCheck(w, op) ==
    /\ req[w].op = op
    /\ req[w].pc = "read"
    /\ req'[w].pc = "done"

\* The fields of post p an update may set.
Fields(row) == <<row.title, row.content, row.category_id>>

\* C18: only the author changes a post.  update_post answers 404 for a post
\* that is missing or was deleted before the call, 403 for a caller who is
\* not the author of the post (never 200), 400 for the author of a locked
\* post; a call that fails in one of these checks leaves every post as it
\* was, and title, content and category change only in the commit of an
\* update_post of the post's author.
C18_OnlyAuthorUpdates ==
    /\ [](\A w \in Workers :
            (req[w].pc = "done" /\ req[w].op = "update_post") =>
                LET row == posts[req[w].post]
                    status == req[w].response.status
                IN /\ (~row.exists \/ req[w].post \in req[w].gone) => status = 404
                   /\ (row.exists /\ row.author # req[w].user)
                        => status \in {403, 404}
                   /\ (row.exists /\ ~row.is_deleted /\ row.author # req[w].user)
                        => status = 403
                   /\ (row.exists /\ ~row.is_deleted /\ row.author = req[w].user
                       /\ row.is_locked) => status = 400)
    /\ [][\A w \in Workers : FailsAtCheck(w, "update_post") => posts' = posts]_forum_vars
    /\ [][\A p \in PostIds :
            Fields(posts'[p]) # Fields(posts[p]) =>
                \E w \in Workers :
                    /\ req[w].op = "update_post" /\ req[w].pc = "write"
                    /\ req[w].post = p /\ req[w].user = posts[p].author
                    /\ req'[w].pc = "done"]_forum_vars

\* A user who is not the author was answered 403 and the post is as it was
\* written.
C18_Witness ==
    \E w \in Workers :
        /\ req[w].pc = "done" /\ req[w].op = "update_post"
        /\ req[w].user # posts[req[w].post].author
        /\ req[w].response.status = 403
        /\ posts[req[w].post] = PostRow("u1", FALSE)

\* C19: delete_post is a soft delete of the author's: another user gets 403
\* and nothing changes, only the commit of the author's delete_post sets
\* is_deleted, the row stays and stays deleted.  For a post deleted before
\* the call, get_post, update_post, create_comment and toggle_post_like
\* answer 404, and get_posts and the statistics neither list nor count it.
C19_SoftDeleteByAuthorIsFinal ==
    /\ [](\A w \in Workers :
            req[w].pc = "done" =>
                LET row == posts[req[w].post]
                    resp == req[w].response
                IN /\ (req[w].op = "delete_post" /\ row.exists
                       /\ row.author # req[w].user) => resp.status = 403
                   /\ (req[w].op = "delete_post" /\ resp.status = 200)
                        => (row.exists /\ row.is_deleted)
                   /\ (req[w].post \in req[w].gone
                       /\ req[w].op \in {"get_post", "update_post", "create_comment",
                                         "toggle_post_like"}) => resp.status = 404
                   /\ req[w].op \in {"get_posts", "get_forum_stats"} =>
                        /\ resp.ids \cap req[w].gone = {}
                        /\ resp.total_posts = Cardinality(resp.ids))
    /\ [][\A w \in Workers : FailsAtCheck(w, "delete_post") => posts' = posts]_forum_vars
    /\ [][\A p \in PostIds :
            /\ posts[p].is_deleted => (posts'[p].exists /\ posts'[p].is_deleted)
            /\ (~posts[p].is_deleted /\ posts'[p].is_deleted) =>
                 \E w \in Workers :
                     /\ req[w].op = "delete_post" /\ req[w].pc = "write"
                     /\ req[w].post = p /\ req[w].user = posts[p].author]_forum_vars

\* The post was deleted, and a like sent afterwards was answered 404.
C19_Witness ==
    \E w \in Workers :
        /\ req[w].pc = "done" /\ req[w].op = "toggle_post_like"
        /\ req[w].post \in req[w].gone
        /\ posts[req[w].post].is_deleted
        /\ req[w].response.status = 404

\* The users who like post p.
Likers(p) == {u \in Users : post_likes[<<u, p>>] > 0}

\* C20: the write of toggle_post_like by u on a live post p leaves every
\* other pair of post_likes as it is, and when no other toggle of the same
\* pair came between its lookup and its write it flips (u, p), so that a
\* second toggle restores the relation; the liked flag it answers with is
\* the membership of (u, p) after its write and like_count the number of
\* users who like p when it counts; and post_likes never holds a pair
\* twice, however the toggles interleave.
C20_ToggleFlipsOnePair ==
    /\ [](\A l \in Users \X PostIds : post_likes[l] <= 1)
    /\ [][\A w \in Workers :
            (req[w].op = "toggle_post_like" /\ req[w].pc = "write"
             /\ req'[w].pc # "write") =>
                LET l == <<req[w].user, req[w].post>>
                IN /\ \A k \in Users \X PostIds :
                         k # l => post_likes'[k] = post_likes[k]
                   /\ req[w].existing_like = (post_likes[l] > 0) =>
                         /\ (post_likes'[l] > 0) = ~(post_likes[l] > 0)
                         /\ req'[w].pc = "count"
                   /\ req'[w].pc = "count" =>
                         req'[w].response.liked = (post_likes'[l] > 0)]_forum_vars
    /\ [][\A w \in Workers :
            (req[w].op = "toggle_post_like" /\ req[w].pc = "count"
             /\ req'[w].pc = "done") =>
                /\ req'[w].response.status = 200
                /\ req'[w].response.liked = req[w].response.liked
                /\ req'[w].response.like_count = Cardinality(Likers(req[w].post))
                /\ post_likes' = post_likes]_forum_vars

\* Two toggles of one user for one post overlapped: both found no like,
\* one inserted it and was answered, the other's insert was refused.
C20_Witness ==
    \E w, x \in Workers :
        /\ w # x
        /\ req[w].op = "toggle_post_like" /\ req[x].op = "toggle_post_like"
        /\ req[w].user = req[x].user /\ req[w].post = req[x].post
        /\ req[w].pc = "done" /\ req[w].response.status = 200
        /\ req[w].response.liked /\ req[w].response.like_count = 1
        /\ req[x].pc = "done" /\ req[x].response.status = 500
        /\ post_likes[<<req[w].user, req[w].post>>] = 1

\* Row c of forum_comments is stored in this step.
Created(c) == ~comments[c].exists /\ comments'[c].exists

\* C21: a comment is stored only on a post that exists and is neither
\* deleted nor locked at that moment and, when it names a parent, only when
\* the parent is a comment of the same post that is not deleted; and in
\* every state the parent of a comment that has one is a comment of the
\* same post.
C21_CommentsOnlyOnOpenPosts ==
    /\ [](\A c \in CommentIds :
            (comments[c].exists /\ comments[c].parent_id # NoParent) =>
                /\ comments[c].parent_id \in CommentIds
                /\ comments[comments[c].parent_id].exists
                /\ comments[comments[c].parent_id].post_id = comments[c].post_id)
    /\ [][\A c \in CommentIds :
            Created(c) =>
                LET row == comments'[c]
                IN /\ LivePost(row.post_id)
                   /\ ~posts[row.post_id].is_locked
                   /\ row.parent_id # NoParent =>
                         LiveCommentOf(row.parent_id, row.post_id)]_forum_vars

\* The elements of a sequence of ids.
Range(seq) == {seq[i] : i \in DOMAIN seq}

\* The pages of the query that were asked with parameters get_posts
\* accepts.
AskedPages ==
    {k \in Pages : /\ k >= 1
                   /\ list_query.per_page \in PER_PAGE_GE..PER_PAGE_LE
                   /\ list_response[k] # NoListResponse}

\* The posts that are not deleted and match the filters that are given.
MatchingPosts ==
    {p \in ListedPosts :
        /\ ~list_table[p].is_deleted
        /\ list_query.category_id # NoCategory =>
              list_table[p].category_id = list_query.category_id
        /\ list_query.search => list_table[p].matches}

\* The sequences of the matching posts in the order the query asks for.
SortedSequences ==
    {ord \in [1..Cardinality(MatchingPosts) -> MatchingPosts] :
        /\ \A i, j \in DOMAIN ord : i # j => ord[i] # ord[j]
        /\ \A i, j \in DOMAIN ord :
              i < j => MayPrecede(list_table[ord[i]], list_table[ord[j]],
                                  list_query)}

\* C22: every page get_posts is asked for is answered with total the number
\* of posts that are not deleted and match the filters, with the posts at
\* positions (k-1)*per_page .. k*per_page-1 of the sorted sequence (pinned
\* posts first when pinned_first is set), has_prev exactly for k > 1 and
\* has_next exactly for k*per_page < total; the pages are disjoint, and
\* together they hold all matching posts.
C22_PagesPartitionMatchingPosts ==
    /\ \A k \in AskedPages :
          LET resp == list_response[k]
          IN /\ resp.status = 200
             /\ resp.total = Cardinality(MatchingPosts)
             /\ \E ord \in SortedSequences :
                   resp.posts = PageOf(ord, k, list_query.per_page)
             /\ resp.has_prev = (k > 1)
             /\ resp.has_next = (k * list_query.per_page < resp.total)
    /\ \A k, m \in AskedPages :
          k # m => Range(list_response[k].posts)
                      \cap Range(list_response[m].posts) = {}
    /\ (/\ AskedPages = Pages \ {0}
        /\ MaxPage * list_query.per_page >= Cardinality(MatchingPosts))
          => UNION {Range(list_response[k].posts) : k \in AskedPages}
                = MatchingPosts

\* The count get_posts reports for post p under the query's sort_by.
ReportedCount(p) ==
    IF list_query.sort_by = "comments" THEN comment_count(p) ELSE like_count(p)

\* C23: with sort_by comments or likes, sort_order desc and pinned_first
\* false, get_posts answers every page with its posts, and the rows it
\* loaded for the page are in non-increasing order of the comment_count
\* (the comments that are not deleted) or the like_count it reports for
\* them.
C23_SortedByReportedCount ==
    (/\ list_query.sort_by \in {"comments", "likes"}
     /\ list_query.sort_order = "desc"
     /\ ~list_query.pinned_first) =>
        \A k \in AskedPages :
            LET resp == list_response[k]
            IN /\ resp.status = 200
               /\ resp.posts = resp.loaded
               /\ \A i, j \in DOMAIN resp.loaded :
                     i < j => ReportedCount(resp.loaded[i])
                                 >= ReportedCount(resp.loaded[j])

\* C24: a login_email or verify_login_otp that was answered with the
\* access_token cookie is for a user whose is_verified is true.
C24_TokenOnlyForVerified ==
    \A t \in Threads :
        (/\ auth_req[t].pc = "done"
         /\ auth_req[t].op \in {"login_email", "verify_login_otp"}
         /\ auth_req[t].response.token) => auth_user.is_verified

\* The answers with which an OTP has succeeded.
OtpOps == {"verify_signup_otp", "verify_login_otp", "reset_password"}
OtpSuccess == {"verified", "login_successful", "password_reset_successful"}

\* In this step the handler of thread t finds the OTP it was sent right.
Accepts(t) ==
    /\ auth_req[t].pc # "commit"
    /\ auth_req'[t] # auth_req[t]
    /\ auth_req'[t].op \in OtpOps
    /\ auth_req'[t].response.body \in OtpSuccess

\* In this step the handler of thread t answers that the OTP has succeeded.
Succeeds(t) ==
    /\ auth_req'[t] # auth_req[t]
    /\ auth_req'[t].pc = "done"
    /\ auth_req'[t].op \in OtpOps
    /\ auth_req'[t].response.body \in OtpSuccess

\* The OTP that the handler which answers in this step was sent.
Presented(t) == auth_req'[t].otp

\* verify_login_otp and reset_password would take this OTP now.
Accepted(row, now, otp) ==
    /\ row.exists
    /\ row.otp_expiry # NoExpiry
    /\ now <= row.otp_expiry
    /\ row.otp_code = otp

\* C25: an OTP is found right only while it has not expired, and once
\* verify_signup_otp, verify_login_otp or reset_password has answered that
\* it succeeded, the same OTP is not one that verify_login_otp or
\* reset_password takes again (until an OTP is issued anew).
C25_OtpSucceedsOnce ==
    [][\A t \in Threads :
          /\ Accepts(t) => /\ auth_user.otp_expiry # NoExpiry
                           /\ clock <= auth_user.otp_expiry
          /\ Succeeds(t) => ~Accepted(auth_user', clock', Presented(t))]_auth_vars

\* The part of C25 about the expiry, and the part about the handlers that
\* clear the OTP.
C25_NotAfterExpiry ==
    [][\A t \in Threads :
          Accepts(t) => /\ auth_user.otp_expiry # NoExpiry
                        /\ clock <= auth_user.otp_expiry]_auth_vars
C25_ClearedByVerifyAndReset ==
    [][\A t \in Threads :
          (Succeeds(t) /\ auth_req'[t].op # "verify_login_otp")
             => ~Accepted(auth_user', clock', Presented(t))]_auth_vars

\* The handlers that issue an OTP.
IssueOps == {"signup", "request_login_otp", "request_password_reset"}

\* In this step thread t takes a submission of an OTP that differs from the
\* one of the user, who exists and whose OTP has not expired.
WrongSubmission(t) ==
    /\ auth_req[t].pc # "commit"
    /\ auth_req'[t] # auth_req[t]
    /\ auth_req'[t].op \in OtpOps
    /\ auth_user.exists
    /\ auth_user.otp_expiry # NoExpiry
    /\ clock <= auth_user.otp_expiry
    /\ auth_req'[t].otp # auth_user.otp_code

\* In this step the handler of thread t commits the attempt it counted.
CountsAttempt(t) ==
    /\ auth_req[t].pc = "commit"
    /\ auth_req[t].op \in OtpOps
    /\ auth_req[t].response.status = 400
    /\ auth_req'[t].pc = "done"

\* In this step the handler of thread t commits the OTP it issues.
Issues(t) ==
    /\ auth_req[t].pc = "commit"
    /\ auth_req[t].op \in IssueOps
    /\ auth_req'[t].pc = "done"
    /\ auth_req'[t].response.status # 500

\* The wrong submission is refused with 400 and no token, and all the
\* handler has set is attempts, one more than it was.
Refused400(t) ==
    /\ auth_req'[t].response = AuthResponse(400, "error", FALSE)
    /\ auth_req'[t].pc = "commit"
    /\ auth_req'[t].new = [auth_user EXCEPT !.attempts = @ + 1]

\* C26: a submission of a wrong OTP for a user who exists and whose OTP has
\* not expired is answered 400 without a token, and its commit makes
\* attempts one more and changes nothing else of the user; the commit of
\* every issuance of an OTP leaves attempts at 0.
C26_WrongOtpCountsOneAttempt ==
    [][\A t \in Threads :
          /\ WrongSubmission(t) => Refused400(t)
          /\ CountsAttempt(t) =>
                /\ auth_user' = [auth_user EXCEPT !.attempts = @ + 1]
                /\ auth_req'[t].response = AuthResponse(400, "error", FALSE)
          /\ Issues(t) => auth_user'.attempts = 0]_auth_vars

\* The parts of C26: the submission to a user who is not verified yet or to
\* a handler other than verify_signup_otp; the commit of the attempt; the
\* commit of the issuance.
C26_Refused ==
    [][\A t \in Threads :
          (/\ WrongSubmission(t)
           /\ ~(auth_req'[t].op = "verify_signup_otp" /\ auth_user.is_verified))
             => Refused400(t)]_auth_vars
C26_Counted ==
    [][\A t \in Threads :
          CountsAttempt(t) =>
             /\ auth_user' = [auth_user EXCEPT !.attempts = @ + 1]
             /\ auth_req'[t].response = AuthResponse(400, "error", FALSE)]_auth_vars
C26_Reset ==
    [][\A t \in Threads : Issues(t) => auth_user'.attempts = 0]_auth_vars

====
